---- MODULE Spec2Model ----
(***************************************************************************)
(* Model of the launcher's recommendation cache (src/src/utils/arc.ts) and *)
(* of the launcher code that persists and reads it                         *)
(* (src/src/windows/LauncherApp.tsx), of the launcher's match scorer       *)
(* (fuzzyMatchPenalty, getMatchForField, getBestMatchForApp), of the       *)
(* ranking of the search results (deduplicatedApps, filteredApps) and of   *)
(* the phonetic expansion of names (src/src/utils/pinyin.ts).              *)
(*                                                                         *)
(* A JavaScript string is modelled as the sequence of its characters, each *)
(* a one-character string; a character outside ASCII is written "U+XXXX".  *)
(*                                                                         *)
(* A JavaScript Map<string, CacheItem> is modelled as the sequence of its  *)
(* entries <<key, item>> in insertion order; keys are unique within one    *)
(* map.  Keys are positive integers standing for non-empty id strings, so  *)
(* a key read from a non-empty map is always truthy.                       *)
(***************************************************************************)
EXTENDS Integers, Sequences, FiniteSets, TLC

\* ------------------------------------------------------------------ bounds

\* Keys (application ids) used by access() calls of the class-level model.
NumKeys == 4
\* Capacities the constructor is called with in the class-level model.
MaxCapacity == 2
\* Date.now() takes the values 0..MaxNow in the class-level model.
MaxNow == 1
\* An entry is accessed while its accessCount is below MaxCount.
MaxCount == 3

\* LauncherApp.tsx: const MAX_RECOMMENDED = 5
MAX_RECOMMENDED == 5

Keys == 1..NumKeys

VARIABLES
    arc,      \* the ARC instance: [t1, t2, b1, b2, p, capacity]
    now,      \* the value Date.now() returns
    stored,   \* localStorage item STORAGE_KEY
    opened,   \* ids passed to window.wolong.launcher.open, in call order
    last,     \* the most recent call on the cache and how it ended
    openResult,  \* how the last window.wolong.launcher.open promise settled
    fieldCalls,  \* getMatchForField calls made so far: [search, value, match]
    calls,       \* getBestMatchForApp calls made so far: [app, search, match]
    variantCalls, \* toPinyinVariants calls made so far: [text, variants]
    apps,        \* useState apps: the list the scanner delivered last
    searchTerm,  \* useState searchTerm: the text of the input
    recommendedMemo, \* the memoised value of recommendedApps
    filtered,    \* the memoised value of filteredApps: the list on screen
    scanner,     \* scanPromiseRef, the promises startScan made, isLoading
    clipboard,   \* clipboardSubscribers, clipboardWatcherAttached, webContents
    proxy,       \* the smoothing stream proxy: state, timers, handler calls
    relative     \* a formatRelativeTime call: its arguments and its label

cacheVars == <<arc, now, stored, opened, last, openResult>>
matchVars == <<fieldCalls, calls, variantCalls>>
rankVars == <<apps, searchTerm, recommendedMemo, filtered>>
serviceVars == <<scanner, clipboard, proxy, relative>>
vars == <<arc, now, stored, opened, last, openResult,
          fieldCalls, calls, variantCalls,
          apps, searchTerm, recommendedMemo, filtered,
          scanner, clipboard, proxy, relative>>

\* ------------------------------------------------------------ Map helpers

\* Map.prototype.has
MapHas(m, k) == \E i \in 1..Len(m) : m[i][1] = k

\* Position of key k in map m (k is present).
MapIndex(m, k) == CHOOSE i \in 1..Len(m) : m[i][1] = k

\* Map.prototype.get (k is present)
MapGet(m, k) == m[MapIndex(m, k)][2]

\* Map.prototype.delete
MapDelete(m, k) == SelectSeq(m, LAMBDA e : e[1] # k)

\* Map.prototype.set: a present key keeps its position, a new key goes last.
MapSet(m, k, item) ==
    IF MapHas(m, k)
    THEN [m EXCEPT ![MapIndex(m, k)] = <<k, item>>]
    ELSE Append(m, <<k, item>>)

\* The set of keys of a map.
KeySet(m) == {m[i][1] : i \in 1..Len(m)}

\* new Map(entries): entries are set one after another.
RECURSIVE MapFromEntries(_)
MapFromEntries(entries) ==
    IF entries = <<>> THEN <<>>
    ELSE LET n == Len(entries)
             e == entries[n]
         IN  MapSet(MapFromEntries(SubSeq(entries, 1, n - 1)), e[1], e[2])

\* ------------------------------------------------------------------- ARC

\* A CacheItem as access() creates it.
NewItem(key, value, t) ==
    [key |-> key, value |-> value, lastAccessed |-> t, accessCount |-> 1]

\* constructor(capacity)
NewARC(capacity) ==
    [t1 |-> <<>>, t2 |-> <<>>, b1 |-> <<>>, b2 |-> <<>>,
     p |-> 0, capacity |-> capacity]

\* replace that deletes the evicted entry without keeping it as a ghost.
replaceDiscarding(a, containsInT2) ==
    IF /\ Len(a.t1) >= 1
       /\ \/ (containsInT2 /\ Len(a.t1) > a.p)
          \/ Len(a.t1) > a.p
    THEN [a EXCEPT !.t1 = MapDelete(a.t1, a.t1[1][1])]
    ELSE IF a.t2 = <<>> THEN a
         ELSE [a EXCEPT !.t2 = MapDelete(a.t2, a.t2[1][1])]

\* replace with its test negated: T2 is evicted where T1 should be.
replaceInverted(a, containsInT2) ==
    IF ~(/\ Len(a.t1) >= 1
         /\ \/ (containsInT2 /\ Len(a.t1) > a.p)
            \/ Len(a.t1) > a.p)
    THEN IF a.t1 = <<>> THEN a
         ELSE LET firstKey == a.t1[1][1]
                  evicted  == MapGet(a.t1, firstKey)
              IN  [a EXCEPT !.t1 = MapDelete(a.t1, firstKey),
                            !.b1 = MapSet(a.b1, firstKey, evicted)]
    ELSE IF a.t2 = <<>> THEN a
         ELSE LET firstKey == a.t2[1][1]
                  evicted  == MapGet(a.t2, firstKey)
              IN  [a EXCEPT !.t2 = MapDelete(a.t2, firstKey),
                            !.b2 = MapSet(a.b2, firstKey, evicted)]

\* private replace(containsInT2)
replace(a, containsInT2) ==
    IF /\ Len(a.t1) >= 1
       /\ \/ (containsInT2 /\ Len(a.t1) > a.p)
          \/ Len(a.t1) > a.p
    THEN \* evict from T1 (T1 is not empty here)
         LET firstKey == a.t1[1][1]
             evicted  == MapGet(a.t1, firstKey)
         IN  [a EXCEPT !.t1 = MapDelete(a.t1, firstKey),
                       !.b1 = MapSet(a.b1, firstKey, evicted)]
    ELSE \* evict from T2, if it has a first key
         IF a.t2 = <<>> THEN a
         ELSE LET firstKey == a.t2[1][1]
                  evicted  == MapGet(a.t2, firstKey)
              IN  [a EXCEPT !.t2 = MapDelete(a.t2, firstKey),
                            !.b2 = MapSet(a.b2, firstKey, evicted)]

\* Math.min / Math.max on integers
Min(x, y) == IF x <= y THEN x ELSE y
Max(x, y) == IF x >= y THEN x ELSE y

\* The branch of access() a key takes: the order of the tests is the code's.
Classify(a, key) ==
    IF MapHas(a.t1, key) THEN "T1"
    ELSE IF MapHas(a.t2, key) THEN "T2"
    ELSE IF MapHas(a.b1, key) THEN "B1"
    ELSE IF MapHas(a.b2, key) THEN "B2"
    ELSE "miss"

\* access(), case 1: hit in T1
accessT1(a, key, t) ==
    LET item  == MapGet(a.t1, key)
        item2 == [item EXCEPT !.accessCount = item.accessCount + 1,
                              !.lastAccessed = t]
        moved == [a EXCEPT !.t1 = MapDelete(a.t1, key),
                           !.t2 = MapSet(a.t2, key, item2)]
    IN  replace(moved, FALSE)

\* accessT2 with the set but without the delete before it: the entry keeps
\* its place in T2.
accessT2InPlace(a, key, t) ==
    LET item  == MapGet(a.t2, key)
        item2 == [item EXCEPT !.accessCount = item.accessCount + 1,
                              !.lastAccessed = t]
        moved == [a EXCEPT !.t2 = MapSet(a.t2, key, item2)]
    IN  replace(moved, TRUE)

\* accessT2 that also raises p by one, up to the capacity.
accessT2Adapting(a, key, t) ==
    LET item  == MapGet(a.t2, key)
        item2 == [item EXCEPT !.accessCount = item.accessCount + 1,
                              !.lastAccessed = t]
        moved == [a EXCEPT !.t2 = MapSet(MapDelete(a.t2, key), key, item2),
                           !.p = Min(a.capacity, a.p + 1)]
    IN  replace(moved, TRUE)

\* access(), case 1: hit in T2
accessT2(a, key, t) ==
    LET item  == MapGet(a.t2, key)
        item2 == [item EXCEPT !.accessCount = item.accessCount + 1,
                              !.lastAccessed = t]
        moved == [a EXCEPT !.t2 = MapSet(MapDelete(a.t2, key), key, item2)]
    IN  replace(moved, TRUE)

\* accessB1 that inserts the returning key into T1 instead of T2.
accessB1IntoT1(a, key, value, t) ==
    LET delta   == Min(Len(a.b2), 1)
        adapted == [a EXCEPT !.p = Min(a.capacity, a.p + delta)]
        r       == replace(adapted, TRUE)
    IN  [r EXCEPT !.b1 = MapDelete(r.b1, key),
                  !.t1 = MapSet(r.t1, key, NewItem(key, value, t))]

\* accessB1 without the delete from B1: the key stays in the ghost list.
accessB1KeepsGhost(a, key, value, t) ==
    LET delta   == Min(Len(a.b2), 1)
        adapted == [a EXCEPT !.p = Min(a.capacity, a.p + delta)]
        r       == replace(adapted, TRUE)
    IN  [r EXCEPT !.t2 = MapSet(r.t2, key, NewItem(key, value, t))]

\* accessB1 without the clamp of p to the capacity.
accessB1Unclamped(a, key, value, t) ==
    LET delta   == Min(Len(a.b2), 1)
        adapted == [a EXCEPT !.p = a.p + delta]
        r       == replace(adapted, TRUE)
    IN  [r EXCEPT !.b1 = MapDelete(r.b1, key),
                  !.t2 = MapSet(r.t2, key, NewItem(key, value, t))]

\* access(), case 2: hit in the ghost list B1
accessB1(a, key, value, t) ==
    LET delta   == Min(Len(a.b2), 1)
        adapted == [a EXCEPT !.p = Min(a.capacity, a.p + delta)]
        r       == replace(adapted, TRUE)
    IN  [r EXCEPT !.b1 = MapDelete(r.b1, key),
                  !.t2 = MapSet(r.t2, key, NewItem(key, value, t))]

\* accessB2 without the clamp of p to 0.
accessB2Unclamped(a, key, value, t) ==
    LET delta   == Min(Len(a.b1), 1)
        adapted == [a EXCEPT !.p = a.p - delta]
        r       == replace(adapted, FALSE)
    IN  [r EXCEPT !.b2 = MapDelete(r.b2, key),
                  !.t2 = MapSet(r.t2, key, NewItem(key, value, t))]

\* access(), case 3: hit in the ghost list B2
accessB2(a, key, value, t) ==
    LET delta   == Min(Len(a.b1), 1)
        adapted == [a EXCEPT !.p = Max(0, a.p - delta)]
        r       == replace(adapted, FALSE)
    IN  [r EXCEPT !.b2 = MapDelete(r.b2, key),
                  !.t2 = MapSet(r.t2, key, NewItem(key, value, t))]

\* accessMiss that deletes the oldest entry of a full T1 without keeping it
\* as a ghost in B1.
accessMissDiscardingT1(a, key, value, t) ==
    LET l1Size == Len(a.t1) + Len(a.b1)
        l2Size == Len(a.t2) + Len(a.b2)
        managed ==
            IF l1Size = a.capacity
            THEN IF Len(a.t1) < a.capacity
                 THEN replace(IF a.b1 = <<>> THEN a
                              ELSE [a EXCEPT !.b1 = MapDelete(a.b1, a.b1[1][1])],
                              FALSE)
                 ELSE IF a.t1 = <<>> THEN a
                      ELSE [a EXCEPT !.t1 = MapDelete(a.t1, a.t1[1][1])]
            ELSE IF l1Size < a.capacity /\ l1Size + l2Size >= a.capacity
                 THEN replace(IF l1Size + l2Size = 2 * a.capacity /\ a.b2 # <<>>
                              THEN [a EXCEPT !.b2 = MapDelete(a.b2, a.b2[1][1])]
                              ELSE a,
                              FALSE)
                 ELSE a
    IN  [managed EXCEPT !.t1 = MapSet(managed.t1, key, NewItem(key, value, t))]

\* accessMiss that sets the new entry in front of T1 instead of at its end.
accessMissAtFront(a, key, value, t) ==
    LET l1Size == Len(a.t1) + Len(a.b1)
        l2Size == Len(a.t2) + Len(a.b2)
        managed ==
            IF l1Size = a.capacity
            THEN IF Len(a.t1) < a.capacity
                 THEN replace(IF a.b1 = <<>> THEN a
                              ELSE [a EXCEPT !.b1 = MapDelete(a.b1, a.b1[1][1])],
                              FALSE)
                 ELSE IF a.t1 = <<>> THEN a
                      ELSE [a EXCEPT !.t1 = MapDelete(a.t1, a.t1[1][1]),
                                    !.b1 = MapSet(a.b1, a.t1[1][1], a.t1[1][2])]
            ELSE IF l1Size < a.capacity /\ l1Size + l2Size >= a.capacity
                 THEN replace(IF l1Size + l2Size = 2 * a.capacity /\ a.b2 # <<>>
                              THEN [a EXCEPT !.b2 = MapDelete(a.b2, a.b2[1][1])]
                              ELSE a,
                              FALSE)
                 ELSE a
    IN  [managed EXCEPT !.t1 = <<<<key, NewItem(key, value, t)>>>> \o managed.t1]

\* accessMiss that calls the replacement step whenever |T1| + |B1| differs
\* from the capacity, whatever the total size.
accessMissAlwaysReplacing(a, key, value, t) ==
    LET l1Size == Len(a.t1) + Len(a.b1)
        l2Size == Len(a.t2) + Len(a.b2)
        managed ==
            IF l1Size = a.capacity
            THEN IF Len(a.t1) < a.capacity
                 THEN replace(IF a.b1 = <<>> THEN a
                              ELSE [a EXCEPT !.b1 = MapDelete(a.b1, a.b1[1][1])],
                              FALSE)
                 ELSE IF a.t1 = <<>> THEN a
                      ELSE [a EXCEPT !.t1 = MapDelete(a.t1, a.t1[1][1]),
                                    !.b1 = MapSet(a.b1, a.t1[1][1], a.t1[1][2])]
            ELSE replace(IF l1Size + l2Size = 2 * a.capacity /\ a.b2 # <<>>
                         THEN [a EXCEPT !.b2 = MapDelete(a.b2, a.b2[1][1])]
                         ELSE a,
                         FALSE)
    IN  [managed EXCEPT !.t1 = MapSet(managed.t1, key, NewItem(key, value, t))]

\* access(), case 4: miss
accessMiss(a, key, value, t) ==
    LET l1Size == Len(a.t1) + Len(a.b1)
        l2Size == Len(a.t2) + Len(a.b2)
        managed ==
            IF l1Size = a.capacity
            THEN IF Len(a.t1) < a.capacity
                 THEN \* evict from B1, then replace
                      replace(IF a.b1 = <<>> THEN a
                              ELSE [a EXCEPT !.b1 = MapDelete(a.b1, a.b1[1][1])],
                              FALSE)
                 ELSE \* evict from T1 into B1
                      IF a.t1 = <<>> THEN a
                      ELSE LET firstKey == a.t1[1][1]
                               evicted  == MapGet(a.t1, firstKey)
                           IN  [a EXCEPT !.t1 = MapDelete(a.t1, firstKey),
                                         !.b1 = MapSet(a.b1, firstKey, evicted)]
            ELSE IF l1Size < a.capacity /\ l1Size + l2Size >= a.capacity
                 THEN replace(IF l1Size + l2Size = 2 * a.capacity /\ a.b2 # <<>>
                              THEN [a EXCEPT !.b2 = MapDelete(a.b2, a.b2[1][1])]
                              ELSE a,
                              FALSE)
                 ELSE a
    IN  [managed EXCEPT !.t1 = MapSet(managed.t1, key, NewItem(key, value, t))]

\* access(key, value) at time t = Date.now()
access(a, key, value, t) ==
    CASE Classify(a, key) = "T1"   -> accessT1(a, key, t)
      [] Classify(a, key) = "T2"   -> accessT2(a, key, t)
      [] Classify(a, key) = "B1"   -> accessB1(a, key, value, t)
      [] Classify(a, key) = "B2"   -> accessB2(a, key, value, t)
      [] Classify(a, key) = "miss" -> accessMiss(a, key, value, t)

\* The call of replace() that access(key, value) makes at time t: whether
\* it makes one, the cache as it is at the moment of the call, and the
\* argument.
ReplaceCall(a, key, value, t) ==
    LET none == [called |-> FALSE, arc |-> a, bias |-> FALSE]
        call(at, bias) == [called |-> TRUE, arc |-> at, bias |-> bias]
        touched(item) == [item EXCEPT !.accessCount = item.accessCount + 1,
                                      !.lastAccessed = t]
        l1Size == Len(a.t1) + Len(a.b1)
        l2Size == Len(a.t2) + Len(a.b2)
    IN  CASE Classify(a, key) = "T1" ->
                call([a EXCEPT !.t1 = MapDelete(a.t1, key),
                               !.t2 = MapSet(a.t2, key, touched(MapGet(a.t1, key)))],
                     FALSE)
          [] Classify(a, key) = "T2" ->
                call([a EXCEPT !.t2 = MapSet(MapDelete(a.t2, key), key,
                                             touched(MapGet(a.t2, key)))],
                     TRUE)
          [] Classify(a, key) = "B1" ->
                call([a EXCEPT !.p = Min(a.capacity, a.p + Min(Len(a.b2), 1))],
                     TRUE)
          [] Classify(a, key) = "B2" ->
                call([a EXCEPT !.p = Max(0, a.p - Min(Len(a.b1), 1))], FALSE)
          [] Classify(a, key) = "miss" ->
                IF l1Size = a.capacity
                THEN IF Len(a.t1) < a.capacity
                     THEN call(IF a.b1 = <<>> THEN a
                               ELSE [a EXCEPT !.b1 = MapDelete(a.b1, a.b1[1][1])],
                               FALSE)
                     ELSE none
                ELSE IF l1Size < a.capacity /\ l1Size + l2Size >= a.capacity
                     THEN call(IF l1Size + l2Size = 2 * a.capacity /\ a.b2 # <<>>
                               THEN [a EXCEPT !.b2 = MapDelete(a.b2, a.b2[1][1])]
                               ELSE a,
                               FALSE)
                     ELSE none

\* getRecommended(): the values of T2 in the map's iteration order
getRecommended(a) == [i \in 1..Len(a.t2) |-> a.t2[i][2]]

\* has(key)
has(a, key) == MapHas(a.t1, key) \/ MapHas(a.t2, key)

\* getAll(): the values of T1, then those of T2
getAll(a) ==
    [i \in 1..Len(a.t1) |-> a.t1[i][2]] \o [i \in 1..Len(a.t2) |-> a.t2[i][2]]

\* get(key): the value of the entry in T1 or T2, or undefined
get(a, key) ==
    IF MapHas(a.t1, key) THEN MapGet(a.t1, key).value
    ELSE IF MapHas(a.t2, key) THEN MapGet(a.t2, key).value
    ELSE "undefined"

\* getStats()
getStats(a) == [t1Size |-> Len(a.t1), t2Size |-> Len(a.t2), p |-> a.p]

\* ------------------------------------------------- persistence (JS values)

\* JavaScript values an exported record is made of.  Numbers and entry arrays
\* are what export() produces; undefined and a number in place of an array
\* are what a malformed record may hold.
JsNum(n) == [kind |-> "number", entries |-> <<>>, n |-> n]
JsArr(es) == [kind |-> "array", entries |-> es, n |-> 0]
JsUndef == [kind |-> "undefined", entries |-> <<>>, n |-> 0]

\* The properties of an exported record, in the order export() writes them.
ExportFields == <<"t1", "t2", "b1", "b2", "p", "capacity">>

\* export(): Array.from(map.entries()) of each list, p and capacity
export(a) ==
    [t1 |-> JsArr(a.t1), t2 |-> JsArr(a.t2),
     b1 |-> JsArr(a.b1), b2 |-> JsArr(a.b2),
     p |-> JsNum(a.p), capacity |-> JsNum(a.capacity)]

\* new Map(x) throws a TypeError when x is neither nullish nor iterable.
NewMapThrows(x) == x.kind \notin {"array", "undefined"}

\* new Map(x): the entries of an array, or an empty map for undefined.
NewMap(x) == IF x.kind = "array" THEN MapFromEntries(x.entries) ELSE <<>>

\* import without the assignment of p.
importWithoutP(a, data) ==
    LET s1 == [a  EXCEPT !.t1 = NewMap(data.t1)]
        s2 == [s1 EXCEPT !.t2 = NewMap(data.t2)]
        s3 == [s2 EXCEPT !.b1 = NewMap(data.b1)]
        s4 == [s3 EXCEPT !.b2 = NewMap(data.b2)]
    IN  IF NewMapThrows(data.t1) THEN [arc |-> a, threw |-> TRUE]
        ELSE IF NewMapThrows(data.t2) THEN [arc |-> s1, threw |-> TRUE]
        ELSE IF NewMapThrows(data.b1) THEN [arc |-> s2, threw |-> TRUE]
        ELSE IF NewMapThrows(data.b2) THEN [arc |-> s3, threw |-> TRUE]
        ELSE [arc |-> [s4 EXCEPT !.capacity = data.capacity.n], threw |-> FALSE]

\* import(data): the six assignments in order; an exception ends the call
\* where it is thrown.  The result is the instance after the call and
\* whether the call threw.
import(a, data) ==
    LET s1 == [a  EXCEPT !.t1 = NewMap(data.t1)]
        s2 == [s1 EXCEPT !.t2 = NewMap(data.t2)]
        s3 == [s2 EXCEPT !.b1 = NewMap(data.b1)]
        s4 == [s3 EXCEPT !.b2 = NewMap(data.b2)]
    IN  IF NewMapThrows(data.t1) THEN [arc |-> a, threw |-> TRUE]
        ELSE IF NewMapThrows(data.t2) THEN [arc |-> s1, threw |-> TRUE]
        ELSE IF NewMapThrows(data.b1) THEN [arc |-> s2, threw |-> TRUE]
        ELSE IF NewMapThrows(data.b2) THEN [arc |-> s3, threw |-> TRUE]
        ELSE [arc |-> [s4 EXCEPT !.p = data.p.n, !.capacity = data.capacity.n],
              threw |-> FALSE]

\* localStorage.getItem(STORAGE_KEY) when nothing was stored
NoItem == [kind |-> "none", members |-> <<>>]

\* JSON.stringify of a record: its members in property order, a member whose
\* value is undefined being left out.  Finite numbers, strings and arrays of
\* them are written as they are.
JSONstringify(data) ==
    LET all == [i \in 1..Len(ExportFields) |->
                    <<ExportFields[i], data[ExportFields[i]]>>]
    IN  [kind |-> "object",
         members |-> SelectSeq(all, LAMBDA m : m[2].kind # "undefined")]

\* JSON.parse of an object text: a property that has no member reads as
\* undefined.
JSONparse(text) ==
    [f \in {ExportFields[i] : i \in 1..Len(ExportFields)} |->
        IF \E i \in 1..Len(text.members) : text.members[i][1] = f
        THEN text.members[CHOOSE i \in 1..Len(text.members) :
                              text.members[i][1] = f][2]
        ELSE JsUndef]

\* loadARC(): a fresh cache when nothing is stored, when the text does not
\* parse, or when import throws (JSON null has no property t1); otherwise the
\* imported cache.
loadARC(item) ==
    IF item.kind # "object" THEN NewARC(MAX_RECOMMENDED)
    ELSE LET r == import(NewARC(MAX_RECOMMENDED), JSONparse(item))
         IN  IF r.threw THEN NewARC(MAX_RECOMMENDED) ELSE r.arc

\* saveARC(): localStorage.setItem(STORAGE_KEY, JSON.stringify(arc.export()))
saveARC(a) == JSONstringify(export(a))

\* ------------------------------------------------------- recommendations

\* Array.prototype.sort with the comparator of recommendedApps, on pairs
\* <<application, lastAccessed>>: descending by lastAccessed, equal elements
\* keeping their order (the sort is stable).  x goes behind every element
\* whose lastAccessed is not smaller.
InsertByRecency(sorted, x) ==
    LET ahead == Cardinality({i \in 1..Len(sorted) : sorted[i][2] >= x[2]})
    IN  SubSeq(sorted, 1, ahead) \o <<x>> \o SubSeq(sorted, ahead + 1, Len(sorted))

RECURSIVE SortByRecency(_)
SortByRecency(s) ==
    IF s = <<>> THEN <<>>
    ELSE InsertByRecency(SortByRecency(SubSeq(s, 1, Len(s) - 1)), s[Len(s)])

\* recommendedApps with the cut to MAX_RECOMMENDED taken before the sort.
recommendedAppsCutFirst(a, deduplicatedApps) ==
    LET recommended == getRecommended(a)
        appIds == {deduplicatedApps[i] : i \in 1..Len(deduplicatedApps)}
        present == SelectSeq(recommended, LAMBDA item : item.key \in appIds)
        mapped == [i \in 1..Len(present) |->
                      <<present[i].key, present[i].lastAccessed>>]
        sliced == SubSeq(mapped, 1, Min(Len(mapped), MAX_RECOMMENDED))
        sorted == SortByRecency(sliced)
    IN  [i \in 1..Len(sorted) |-> sorted[i][1]]

\* recommendedApps: getRecommended() filtered to the applications of the
\* current list, mapped to them, sorted by the lastAccessed of the first
\* recommended item of that id (most recent first) and cut to
\* MAX_RECOMMENDED.  An application is its id.
recommendedApps(a, deduplicatedApps) ==
    LET recommended == getRecommended(a)
        appIds == {deduplicatedApps[i] : i \in 1..Len(deduplicatedApps)}
        present == SelectSeq(recommended, LAMBDA item : item.key \in appIds)
        found(id) == recommended[CHOOSE i \in 1..Len(recommended) :
                                   /\ recommended[i].key = id
                                   /\ \A j \in 1..(i - 1) : recommended[j].key # id]
        mapped == [i \in 1..Len(present) |->
                      <<present[i].key, found(present[i].key).lastAccessed>>]
        sorted == SortByRecency(mapped)
        sliced == SubSeq(sorted, 1, Min(Len(sorted), MAX_RECOMMENDED))
    IN  [i \in 1..Len(sliced) |-> sliced[i][1]]

\* ----------------------------------------------------------------- strings

\* A JavaScript string is the sequence of its characters, each a one-character
\* string; s[i + 1] is the character at the JavaScript index i.
CharAt(s, i) == s[i + 1]

LowerCaseLetters ==
    <<"a", "b", "c", "d", "e", "f", "g", "h", "i", "j", "k", "l", "m",
      "n", "o", "p", "q", "r", "s", "t", "u", "v", "w", "x", "y", "z">>

UpperCaseLetters ==
    <<"A", "B", "C", "D", "E", "F", "G", "H", "I", "J", "K", "L", "M",
      "N", "O", "P", "Q", "R", "S", "T", "U", "V", "W", "X", "Y", "Z">>

\* The position of character c in the alphabet, 0 when c is no Latin letter.
LetterIndex(c) ==
    IF \E i \in 1..26 : c \in {LowerCaseLetters[i], UpperCaseLetters[i]}
    THEN CHOOSE i \in 1..26 : c \in {LowerCaseLetters[i], UpperCaseLetters[i]}
    ELSE 0

IsUpperCase(c) == \E i \in 1..26 : c = UpperCaseLetters[i]

\* String.prototype.toLowerCase: upper-case letters become their lower-case
\* letter, every other character (lower-case letters, digits, punctuation,
\* CJK characters) is kept.
toLowerCase(s) ==
    [i \in 1..Len(s) |->
        IF IsUpperCase(s[i]) THEN LowerCaseLetters[LetterIndex(s[i])] ELSE s[i]]

\* String.prototype.startsWith
startsWith(s, searchString) ==
    /\ Len(searchString) <= Len(s)
    /\ SubSeq(s, 1, Len(searchString)) = searchString

\* String.prototype.endsWith
endsWith(s, searchString) ==
    /\ Len(searchString) <= Len(s)
    /\ SubSeq(s, Len(s) - Len(searchString) + 1, Len(s)) = searchString

\* String.prototype.includes
includes(s, searchString) ==
    \E from \in 0..(Len(s) - Len(searchString)) :
        SubSeq(s, from + 1, from + Len(searchString)) = searchString

\* String.prototype.indexOf(searchString, position) for a one-character
\* searchString: the first index from position on that holds it, else -1.
indexOf(s, c, position) ==
    IF \E i \in position..(Len(s) - 1) : CharAt(s, i) = c
    THEN CHOOSE i \in position..(Len(s) - 1) :
             /\ CharAt(s, i) = c
             /\ \A j \in position..(i - 1) : CharAt(s, j) # c
    ELSE -1

\* The white space String.prototype.trim removes.
IsWhiteSpace(c) == c = " "

\* String.prototype.trim
RECURSIVE trim(_)
trim(s) ==
    IF s = <<>> THEN s
    ELSE IF IsWhiteSpace(Head(s)) THEN trim(Tail(s))
    ELSE IF IsWhiteSpace(s[Len(s)]) THEN trim(SubSeq(s, 1, Len(s) - 1))
    ELSE s

\* ------------------------------------------------------------ match scorer

\* LauncherApp.tsx: const FIELD_WEIGHTS
FIELD_WEIGHTS == [name |-> 0, source |-> 100, launchPath |-> 200]

\* LauncherApp.tsx: const MATCH_FIELDS, the accessor of a field being the
\* member of that name.
MATCH_FIELDS == <<"name", "source", "launchPath">>

\* The value null of a number | null.
Null == -1

\* The inner loop of fuzzyMatchPenalty from queryIndex on: the characters of
\* query are taken at their first occurrence after currentIndex.
\* The inner loop of fuzzyMatchPenalty that charges every step to the next
\* matched character, the matched character included.
RECURSIVE alignFromCountingSteps(_, _, _, _, _)
alignFromCountingSteps(query, target, queryIndex, currentIndex, penalty) ==
    IF queryIndex >= Len(query)
    THEN [valid |-> TRUE, currentIndex |-> currentIndex, penalty |-> penalty]
    ELSE LET nextIndex == indexOf(target, CharAt(query, queryIndex),
                                  currentIndex + 1)
         IN  IF nextIndex = -1
             THEN [valid |-> FALSE, currentIndex |-> currentIndex,
                   penalty |-> penalty]
             ELSE alignFromCountingSteps(query, target, queryIndex + 1,
                                         nextIndex,
                                         penalty + nextIndex - currentIndex)

RECURSIVE alignFrom(_, _, _, _, _)
alignFrom(query, target, queryIndex, currentIndex, penalty) ==
    IF queryIndex >= Len(query)
    THEN [valid |-> TRUE, currentIndex |-> currentIndex, penalty |-> penalty]
    ELSE LET nextIndex == indexOf(target, CharAt(query, queryIndex),
                                  currentIndex + 1)
         IN  IF nextIndex = -1
             THEN [valid |-> FALSE, currentIndex |-> currentIndex,
                   penalty |-> penalty]
             ELSE alignFrom(query, target, queryIndex + 1, nextIndex,
                            penalty + nextIndex - currentIndex - 1)

\* The least number of a non-empty set of numbers.
Least(S) == CHOOSE x \in S : \A y \in S : x <= y

\* The outer loop of fuzzyMatchPenalty that leaves the characters after the
\* last matched one out of the penalty.
fuzzyLoopNoTrailing(query, target) ==
    LET align(startIndex) == alignFrom(query, target, 1, startIndex, startIndex)
        starts == {startIndex \in 0..(Len(target) - 1) :
                      /\ CharAt(target, startIndex) = CharAt(query, 0)
                      /\ align(startIndex).valid}
    IN  IF starts = {} THEN Null
        ELSE Least({align(startIndex).penalty : startIndex \in starts})

\* The outer loop of fuzzyMatchPenalty: every index that holds the first
\* character of query starts an alignment; a valid one adds the characters
\* after its last matched character to its penalty, and best is the least
\* penalty of the valid ones, null when there is none.
fuzzyLoop(query, target) ==
    LET align(startIndex) == alignFrom(query, target, 1, startIndex, startIndex)
        starts == {startIndex \in 0..(Len(target) - 1) :
                      /\ CharAt(target, startIndex) = CharAt(query, 0)
                      /\ align(startIndex).valid}
        penalty(startIndex) ==
            align(startIndex).penalty
                + Len(target) - align(startIndex).currentIndex - 1
    IN  IF starts = {} THEN Null
        ELSE Least({penalty(startIndex) : startIndex \in starts})

\* fuzzyMatchPenalty(query, target): number | null
fuzzyMatchPenalty(query, target) ==
    IF query = <<>> THEN 0 ELSE fuzzyLoop(query, target)

\* A result of getMatchForField.
FieldMatch(baseScore, matchType) ==
    [baseScore |-> baseScore, matchType |-> matchType, totalScore |-> baseScore]

\* The value null of getMatchForField.
NoFieldMatch == [baseScore |-> Null, matchType |-> "null", totalScore |-> Null]

\* getMatchForField in which a prefix costs what an exact match costs.
getMatchForFieldPrefixFree(search, value) ==
    LET normalizedSearch == toLowerCase(search)
        haystack == toLowerCase(value)
        penalty == fuzzyMatchPenalty(normalizedSearch, haystack)
    IN  IF haystack = normalizedSearch THEN FieldMatch(0, "exact")
        ELSE IF startsWith(haystack, normalizedSearch)
        THEN FieldMatch(0, "prefix")
        ELSE IF penalty = Null THEN NoFieldMatch
        ELSE FieldMatch(2 + penalty, "fuzzy")

\* getMatchForField with the test for equality applied to the strings as
\* they were passed.
getMatchForFieldCaseSensitive(search, value) ==
    LET normalizedSearch == toLowerCase(search)
        haystack == toLowerCase(value)
        penalty == fuzzyMatchPenalty(normalizedSearch, haystack)
    IN  IF value = search THEN FieldMatch(0, "exact")
        ELSE IF startsWith(haystack, normalizedSearch)
        THEN FieldMatch(1, "prefix")
        ELSE IF penalty = Null THEN NoFieldMatch
        ELSE FieldMatch(2 + penalty, "fuzzy")

\* getMatchForField(search, value)
getMatchForField(search, value) ==
    LET normalizedSearch == toLowerCase(search)
        haystack == toLowerCase(value)
        penalty == fuzzyMatchPenalty(normalizedSearch, haystack)
    IN  IF haystack = normalizedSearch THEN FieldMatch(0, "exact")
        ELSE IF startsWith(haystack, normalizedSearch)
        THEN FieldMatch(1, "prefix")
        ELSE IF penalty = Null THEN NoFieldMatch
        ELSE FieldMatch(2 + penalty, "fuzzy")

\* The value null of getBestMatchForApp.
NoMatch ==
    [field |-> "null", fieldWeight |-> Null, baseScore |-> Null,
     matchType |-> "null", totalScore |-> Null]

\* An AppMatch whose totalScore leaves the weight of the field out.
AppMatchUnweighted(field, match) ==
    [field |-> field, fieldWeight |-> FIELD_WEIGHTS[field],
     baseScore |-> match.baseScore, matchType |-> match.matchType,
     totalScore |-> match.totalScore]

\* An AppMatch; its app is the one the call was made with.
AppMatch(field, match) ==
    [field |-> field, fieldWeight |-> FIELD_WEIGHTS[field],
     baseScore |-> match.baseScore, matchType |-> match.matchType,
     totalScore |-> match.totalScore + FIELD_WEIGHTS[field]]

\* The test of getBestMatchForApp that lets candidate replace bestMatch.
Better(candidate, bestMatch) ==
    \/ bestMatch = NoMatch
    \/ candidate.totalScore < bestMatch.totalScore
    \/ /\ candidate.totalScore = bestMatch.totalScore
       /\ candidate.baseScore < bestMatch.baseScore
    \/ /\ candidate.totalScore = bestMatch.totalScore
       /\ candidate.baseScore = bestMatch.baseScore
       /\ candidate.fieldWeight < bestMatch.fieldWeight

\* The loop of getBestMatchForApp that keeps the first field that matches.
RECURSIVE bestFromFirstField(_, _, _, _)
bestFromFirstField(app, normalizedSearch, fieldIndex, bestMatch) ==
    IF fieldIndex > Len(MATCH_FIELDS) THEN bestMatch
    ELSE LET field == MATCH_FIELDS[fieldIndex]
             value == app[field]
             match == getMatchForField(normalizedSearch, value)
         IN  IF value = <<>> \/ match = NoFieldMatch
             THEN bestFromFirstField(app, normalizedSearch, fieldIndex + 1,
                                     bestMatch)
             ELSE bestFromFirstField(app, normalizedSearch, fieldIndex + 1,
                      IF bestMatch = NoMatch THEN AppMatch(field, match)
                      ELSE bestMatch)

\* The loop of getBestMatchForApp over MATCH_FIELDS from fieldIndex on: a
\* field without a value and a field that does not match are passed over.
RECURSIVE bestFrom(_, _, _, _)
bestFrom(app, normalizedSearch, fieldIndex, bestMatch) ==
    IF fieldIndex > Len(MATCH_FIELDS) THEN bestMatch
    ELSE LET field == MATCH_FIELDS[fieldIndex]
             value == app[field]
             match == getMatchForField(normalizedSearch, value)
         IN  IF value = <<>> \/ match = NoFieldMatch
             THEN bestFrom(app, normalizedSearch, fieldIndex + 1, bestMatch)
             ELSE bestFrom(app, normalizedSearch, fieldIndex + 1,
                      IF Better(AppMatch(field, match), bestMatch)
                      THEN AppMatch(field, match)
                      ELSE bestMatch)

\* getBestMatchForApp(app, search)
getBestMatchForApp(app, search) == bestFrom(app, toLowerCase(search), 1, NoMatch)

\* ----------------------------------------------------------------- ranking

\* LauncherApp.tsx: const MAX_RESULTS = 400
MAX_RESULTS == 400

\* The characters that are no Latin letters, in the order localeCompare
\* gives them: white space and punctuation, which come before the letters,
\* and the CJK characters, which come after them, by code point.
Punctuation == <<" ", ".">>
CjkCharacters == <<"U+4FE1", "U+5220", "U+5378", "U+5FAE", "U+8F7D", "U+9664">>

\* Position of c in sequence s, 0 when it is not there.
PositionIn(s, c) ==
    IF \E i \in 1..Len(s) : s[i] = c THEN CHOOSE i \in 1..Len(s) : s[i] = c
    ELSE 0

\* The weight localeCompare compares first: punctuation, then the letters
\* whatever their case, then the CJK characters.
PrimaryWeight(c) ==
    IF LetterIndex(c) > 0 THEN 10 + LetterIndex(c)
    ELSE IF PositionIn(CjkCharacters, c) > 0 THEN 40 + PositionIn(CjkCharacters, c)
    ELSE PositionIn(Punctuation, c)

\* x is before y in the order of sequences of numbers.
LexLess(x, y) ==
    \E i \in 1..(Min(Len(x), Len(y)) + 1) :
        /\ \A j \in 1..(i - 1) : x[j] = y[j]
        /\ \/ i > Len(x) /\ i <= Len(y)
           \/ i <= Len(x) /\ i <= Len(y) /\ x[i] < y[i]

\* String.prototype.localeCompare: negative, zero or positive.  The primary
\* weights decide; between strings that differ in case only, the one with
\* the lower-case letter at the first difference comes first.
localeCompare(a, b) ==
    LET ka == [i \in 1..Len(a) |-> PrimaryWeight(a[i])]
        kb == [i \in 1..Len(b) |-> PrimaryWeight(b[i])]
        d == CHOOSE i \in 1..Len(a) :
                 a[i] # b[i] /\ \A j \in 1..(i - 1) : a[j] = b[j]
    IN  IF LexLess(ka, kb) THEN -1
        ELSE IF LexLess(kb, ka) THEN 1
        ELSE IF a = b THEN 0
        ELSE IF IsUpperCase(a[d]) THEN 1 ELSE -1

\* x ?? 0
OrZero(x) == IF x = Null THEN 0 ELSE x

\* The sort comparator of filteredApps with the launch counts compared in
\* ascending order.
compareMatchesCountAscending(a, b) ==
    IF a.match.totalScore # b.match.totalScore
    THEN a.match.totalScore - b.match.totalScore
    ELSE IF a.match.baseScore # b.match.baseScore
    THEN a.match.baseScore - b.match.baseScore
    ELSE IF a.match.fieldWeight # b.match.fieldWeight
    THEN a.match.fieldWeight - b.match.fieldWeight
    ELSE IF OrZero(a.app.launchCount) # OrZero(b.app.launchCount)
    THEN OrZero(a.app.launchCount) - OrZero(b.app.launchCount)
    ELSE IF OrZero(a.app.lastLaunchedAt) # OrZero(b.app.lastLaunchedAt)
    THEN OrZero(b.app.lastLaunchedAt) - OrZero(a.app.lastLaunchedAt)
    ELSE localeCompare(a.app.name, b.app.name)

\* The sort comparator of filteredApps, on matches [app, match].
compareMatches(a, b) ==
    IF a.match.totalScore # b.match.totalScore
    THEN a.match.totalScore - b.match.totalScore
    ELSE IF a.match.baseScore # b.match.baseScore
    THEN a.match.baseScore - b.match.baseScore
    ELSE IF a.match.fieldWeight # b.match.fieldWeight
    THEN a.match.fieldWeight - b.match.fieldWeight
    ELSE IF OrZero(a.app.launchCount) # OrZero(b.app.launchCount)
    THEN OrZero(b.app.launchCount) - OrZero(a.app.launchCount)
    ELSE IF OrZero(a.app.lastLaunchedAt) # OrZero(b.app.lastLaunchedAt)
    THEN OrZero(b.app.lastLaunchedAt) - OrZero(a.app.lastLaunchedAt)
    ELSE localeCompare(a.app.name, b.app.name)

\* The number of elements x goes behind: from the i-th element backwards,
\* the first one that does not compare greater than x.
RECURSIVE AheadOf(_, _, _)
AheadOf(sorted, x, i) ==
    IF i = 0 \/ compareMatches(sorted[i], x) <= 0 THEN i
    ELSE AheadOf(sorted, x, i - 1)

\* Array.prototype.sort with compareMatches: x goes behind the last element
\* that does not compare greater (the sort is stable).
InsertByMatch(sorted, x) ==
    LET ahead == AheadOf(sorted, x, Len(sorted))
    IN  SubSeq(sorted, 1, ahead) \o <<x>> \o SubSeq(sorted, ahead + 1, Len(sorted))

\* The elements lo..hi of s inserted into sorted one after another: those
\* of the first half of the range, then those of the second half (the test
\* on the length has TLC compute the first result before it goes on).
RECURSIVE SortRange(_, _, _, _)
SortRange(s, lo, hi, sorted) ==
    IF lo > hi THEN sorted
    ELSE IF lo = hi THEN InsertByMatch(sorted, s[lo])
    ELSE LET mid == (lo + hi) \div 2
             firstHalf == SortRange(s, lo, mid, sorted)
         IN  IF Len(firstHalf) >= 0
             THEN SortRange(s, mid + 1, hi, firstHalf)
             ELSE firstHalf

SortByMatch(s) == SortRange(s, 1, Len(s), <<>>)

\* deduplicatedApps: const uninstallerKeywords
uninstallerKeywords ==
    << <<"U+5378", "U+8F7D">>,
       <<"u", "n", "i", "n", "s", "t", "a", "l", "l">>,
       <<"r", "e", "m", "o", "v", "e">>,
       <<"U+5220", "U+9664">> >>

\* ".lnk"
LnkSuffix == <<".", "l", "n", "k">>

\* A turn of the loop of deduplicatedApps that keeps the first application
\* of a name whatever its launchPath.
dedupStepKeepingFirst(appMap, app) ==
    LET nameLower == toLowerCase(app.name)
        isUninstaller ==
            \E k \in 1..Len(uninstallerKeywords) :
                includes(nameLower, toLowerCase(uninstallerKeywords[k]))
    IN  IF isUninstaller THEN appMap
        ELSE IF ~MapHas(appMap, nameLower) THEN MapSet(appMap, nameLower, app)
        ELSE appMap

\* One turn of the loop of deduplicatedApps; appMap maps a lower-cased name
\* to the application kept for it.
dedupStep(appMap, app) ==
    LET nameLower == toLowerCase(app.name)
        isUninstaller ==
            \E k \in 1..Len(uninstallerKeywords) :
                includes(nameLower, toLowerCase(uninstallerKeywords[k]))
        existing == MapGet(appMap, nameLower)
        existingIsLnk == endsWith(toLowerCase(existing.launchPath), LnkSuffix)
        currentIsLnk == endsWith(toLowerCase(app.launchPath), LnkSuffix)
    IN  IF isUninstaller THEN appMap
        ELSE IF ~MapHas(appMap, nameLower) THEN MapSet(appMap, nameLower, app)
        ELSE IF existingIsLnk /\ ~currentIsLnk THEN MapSet(appMap, nameLower, app)
        ELSE appMap

\* The turns of the loop of deduplicatedApps for the applications lo..hi of
\* appList, one after another: those of the first half of the range, then
\* those of the second half on the map the first half leaves (the test on
\* its length has TLC compute that map before it goes on).
RECURSIVE dedupRange(_, _, _, _)
dedupRange(appList, lo, hi, appMap) ==
    IF lo > hi THEN appMap
    ELSE IF lo = hi THEN dedupStep(appMap, appList[lo])
    ELSE LET mid == (lo + hi) \div 2
             firstHalf == dedupRange(appList, lo, mid, appMap)
         IN  IF Len(firstHalf) >= 0
             THEN dedupRange(appList, mid + 1, hi, firstHalf)
             ELSE firstHalf

\* deduplicatedApps: Array.from(appMap.values())
deduplicatedApps(appList) ==
    LET appMap == dedupRange(appList, 1, Len(appList), <<>>)
    IN  [i \in 1..Len(appMap) |-> appMap[i][2]]

\* appMap.get(id) of recommendedApps: of the applications of one id the
\* last one is in the map.
AppById(list, id) ==
    list[CHOOSE i \in 1..Len(list) :
             /\ list[i].id = id
             /\ \A j \in (i + 1)..Len(list) : list[j].id # id]

\* The value of recommendedApps as a list of applications.
recommendedAppList(a, deduplicated) ==
    LET ids == recommendedApps(a, [i \in 1..Len(deduplicated) |-> deduplicated[i].id])
    IN  [i \in 1..Len(ids) |-> AppById(deduplicated, ids[i])]

\* filteredApps that keeps the applications without a match.
filteredAppsUnfiltered(deduplicated, term, recommendedValue) ==
    LET shard == toLowerCase(trim(term))
        matches == [i \in 1..Len(deduplicated) |->
                       [app |-> deduplicated[i],
                        match |-> getBestMatchForApp(deduplicated[i], shard)]]
        sorted == SortByMatch(matches)
        result == [i \in 1..Len(sorted) |-> sorted[i].app]
    IN  IF shard = <<>> THEN recommendedValue
        ELSE SubSeq(result, 1, Min(Len(result), MAX_RESULTS))

\* filteredApps: the recommended applications for a search term that is
\* empty once trimmed; else the applications with a match, sorted, the
\* first MAX_RESULTS of them.
filteredApps(deduplicated, term, recommendedValue) ==
    LET shard == toLowerCase(trim(term))
        matches == [i \in 1..Len(deduplicated) |->
                       [app |-> deduplicated[i],
                        match |-> getBestMatchForApp(deduplicated[i], shard)]]
        kept == SelectSeq(matches, LAMBDA m : m.match # NoMatch)
        sorted == SortByMatch(kept)
        result == [i \in 1..Len(sorted) |-> sorted[i].app]
    IN  IF shard = <<>> THEN recommendedValue
        ELSE SubSeq(result, 1, Min(Len(result), MAX_RESULTS))

\* The dependencies of the recommendedApps memo without arcVersion.
recommendedDepsWithoutArcVersion(appsSet, launched) == appsSet

\* useMemo of recommendedApps: [deduplicatedApps, arcVersion].  The first
\* changes when setApps was called, the second when an application was
\* launched.
recommendedDepsChanged(appsSet, launched) == appsSet \/ launched

\* useMemo: the value is computed again when a dependency changed.
useMemo(previous, fresh, depsChanged) == IF depsChanged THEN fresh ELSE previous

\* The render after an event: the memos of recommendedApps and filteredApps
\* are brought up to date for the list nextApps, the text nextTerm and the
\* cache nextArc.  filteredApps depends on deduplicatedApps, searchTerm and
\* recommendedApps.
Render(nextApps, nextTerm, nextArc, appsSet, launched) ==
    LET deduplicated == deduplicatedApps(nextApps)
        recommendedChanged == recommendedDepsChanged(appsSet, launched)
    IN  /\ recommendedMemo' = useMemo(recommendedMemo,
                                  recommendedAppList(nextArc, deduplicated),
                                  recommendedChanged)
        /\ filtered' = useMemo(filtered,
                               filteredApps(deduplicated, nextTerm, recommendedMemo'),
                               appsSet \/ nextTerm # searchTerm \/ recommendedChanged)

\* The component before the first scan result arrives.
RankIdle ==
    /\ apps = <<>>
    /\ searchTerm = <<>>
    /\ recommendedMemo = <<>>
    /\ filtered = <<>>

\* ------------------------------------------------------ phonetic expansion

\* /[\u4e00-\u9fa5]/ on one character.
IsChinese(c) == PositionIn(CjkCharacters, c) > 0

\* The reading pinyin() gives a Chinese character with toneType 'none'.
Reading(c) ==
    CASE c = "U+4FE1" -> <<"x", "i", "n">>
      [] c = "U+5220" -> <<"s", "h", "a", "n">>
      [] c = "U+5378" -> <<"x", "i", "e">>
      [] c = "U+5FAE" -> <<"w", "e", "i">>
      [] c = "U+8F7D" -> <<"z", "a", "i">>
      [] c = "U+9664" -> <<"c", "h", "u">>

\* Concatenation of the strings of a sequence.
RECURSIVE Concat(_)
Concat(parts) ==
    IF parts = <<>> THEN <<>> ELSE Head(parts) \o Concat(Tail(parts))

\* pinyin(text, { toneType: 'none', nonZh: 'consecutive' }) as the comments
\* at its calls give it: the readings of the Chinese characters, or with
\* pattern 'first' their first letters, and the other characters as they
\* are, in one string.
pinyin(text, pattern) ==
    Concat([i \in 1..Len(text) |->
               IF ~IsChinese(text[i]) THEN <<text[i]>>
               ELSE IF pattern = "first" THEN <<Head(Reading(text[i]))>>
               ELSE Reading(text[i])])

\* Array.from(new Set(array)): the first occurrence of every element.
Unique(array) ==
    LET first == {i \in 1..Len(array) : \A j \in 1..(i - 1) : array[j] # array[i]}
    IN  SelectSeq([i \in 1..Len(array) |-> <<i, array[i]>>],
                  LAMBDA e : e[1] \in first)

\* toPinyinVariants(text): nothing for the empty text, the text itself when
\* it holds no Chinese character, else the full reading and the initials,
\* in lower case, without the empty ones and without duplicates.
toPinyinVariants(text) ==
    LET hasChinese == \E i \in 1..Len(text) : IsChinese(text[i])
        variants == <<toLowerCase(pinyin(text, "all")),
                      toLowerCase(pinyin(text, "first"))>>
        kept == Unique(SelectSeq(variants, LAMBDA v : Len(v) > 0))
    IN  IF text = <<>> THEN <<>>
        ELSE IF ~hasChinese THEN <<text>>
        ELSE [i \in 1..Len(kept) |-> kept[i][2]]

\* ------------------------------------------------------------ scorer calls

\* Characters of the strings the scorer is called with.
MatchAlphabet == {"a", "A", "b"}
\* Longest search string of a getMatchForField call.
MaxSearchLen == 3
\* Longest field value of a getMatchForField call.
MaxValueLen == 4
\* Longest application name of a getBestMatchForApp call, the padded names
\* apart.
MaxNameLen == 2
\* getBestMatchForApp calls of one behaviour.
MaxCalls == 2
\* Characters in front of the one matching character of a padded name: as
\* many as make a fuzzy match on the name cost what an exact match on field
\* costs.
PadFor(field) == FIELD_WEIGHTS[field] - 2

\* The strings over alphabet of length 0..n.
Strings(alphabet, n) == UNION {[1..k -> alphabet] : k \in 0..n}

\* A WindowLauncherApp as the scanner reports one that was never launched.
NewApp(id, name, source, launchPath) ==
    [id |-> id, name |-> name, source |-> source, launchPath |-> launchPath,
     launchCount |-> 0, lastLaunchedAt |-> Null]

\* The (search, value) pairs of the scenarios: "sm", "ste" against "Steam"
\* and "sam" against "Stream".
ScenarioFieldInputs ==
    {<< <<"s", "m">>, <<"S", "t", "e", "a", "m">> >>,
     << <<"s", "t", "e">>, <<"S", "t", "e", "a", "m">> >>,
     << <<"s", "a", "m">>, <<"S", "t", "r", "e", "a", "m">> >>}

\* The (search, value) pairs getMatchForField is called with; filteredApps
\* passes a search that is not empty on.
FieldInputs ==
    ((Strings(MatchAlphabet, MaxSearchLen) \ {<<>>})
        \X Strings(MatchAlphabet, MaxValueLen))
        \cup ScenarioFieldInputs

\* n times "b", then "a".
PadName(n) == [i \in 1..(n + 1) |-> IF i = n + 1 THEN "a" ELSE "b"]

\* Applications with short fields; a field may be empty.
ShortApps ==
    {NewApp(1, name, source, launchPath) :
        name \in Strings(MatchAlphabet, MaxNameLen),
        source \in {<<>>, <<"a">>},
        launchPath \in {<<>>, <<"b", "a">>}}

\* Applications with a long name that holds "a" in its last place only.
PaddedApps ==
    {NewApp(1, PadName(n), source, launchPath) :
        n \in {PadFor("source"), PadFor("launchPath")},
        source \in {<<>>, <<"a">>},
        launchPath \in {<<>>, <<"a">>, <<"a", "b">>}}

\* The application of the Pinyin tests, named U+5FAE U+4FE1 (read "weixin"),
\* and one named by that reading.
PinyinApps ==
    {NewApp(1, name, <<"b">>, <<"b">>) :
        name \in {<<"U+5FAE", "U+4FE1">>, <<"w", "e", "i", "x", "i", "n">>}}

\* The searches of the Pinyin tests: "weixin", "wx", "wei" and "WX".
PinyinSearches ==
    {<<"w", "e", "i", "x", "i", "n">>, <<"w", "x">>, <<"w", "e", "i">>,
     <<"W", "X">>}

\* The applications and searches of the scenarios: "ste" and "sm" for
\* "Steam", "sam" for "Stream".
ScenarioAppInputs ==
    {<<NewApp(1, <<"S", "t", "e", "a", "m">>, <<"b">>, <<"b">>), <<"s", "t", "e">>>>,
     <<NewApp(1, <<"S", "t", "e", "a", "m">>, <<"b">>, <<"b">>), <<"s", "m">>>>,
     <<NewApp(1, <<"S", "t", "r", "e", "a", "m">>, <<"b">>, <<"b">>), <<"s", "a", "m">>>>}

\* The (app, search) pairs getBestMatchForApp is called with; filteredApps
\* passes a search that is not empty on.
AppInputs ==
    (ShortApps \X {<<"a">>, <<"A">>, <<"b">>, <<"a", "b">>})
        \cup (PaddedApps \X {<<"a">>})
        \cup (PinyinApps \X PinyinSearches)
        \cup ScenarioAppInputs

\* No scorer call was made yet.
MatchIdle == fieldCalls = <<>> /\ calls = <<>> /\ variantCalls = <<>>

\* getMatchForField(search, value) is called, once in a behaviour.
scoreField(search, value) ==
    /\ fieldCalls = <<>>
    /\ fieldCalls' = <<[search |-> search, value |-> value,
                        match |-> getMatchForField(search, value)]>>
    /\ UNCHANGED <<cacheVars, calls, variantCalls, rankVars, serviceVars>>

\* getBestMatchForApp(app, search) is called.
bestMatch(app, search) ==
    /\ Len(calls) < MaxCalls
    /\ calls' = Append(calls, [app |-> app, search |-> search,
                               match |-> getBestMatchForApp(app, search)])
    /\ UNCHANGED <<cacheVars, fieldCalls, variantCalls, rankVars, serviceVars>>

\* Characters of the texts toPinyinVariants is called with.
PinyinAlphabet == {"a", "A", "b", "U+5FAE", "U+4FE1"}
\* Longest text drawn from PinyinAlphabet.
MaxTextLen == 2
\* toPinyinVariants calls of one behaviour.
MaxVariantCalls == 2

\* The texts toPinyinVariants is called with: the empty text, the texts over
\* PinyinAlphabet and the "Steam" of the test.
PinyinTexts ==
    {<<>>, <<"S", "t", "e", "a", "m">>}
        \cup UNION {[1..n -> PinyinAlphabet] : n \in 1..MaxTextLen}

\* toPinyinVariants(text) is called.
expand(text) ==
    /\ Len(variantCalls) < MaxVariantCalls
    /\ variantCalls' = Append(variantCalls, [text |-> text,
                                             variants |-> toPinyinVariants(text)])
    /\ UNCHANGED <<cacheVars, fieldCalls, calls, rankVars, serviceVars>>

\* ---------------------------------------------------- class-level actions

\* The record of the most recent call on the cache.
Call(op, key, case, input, threw) ==
    [op |-> op, key |-> key, case |-> case, input |-> input, threw |-> threw]

\* The payload the launcher passes for a key: the application of that id.
AppOf(key) == key

\* ------------------------------------------- services before their first call

\* scanPromiseRef.current === null
NoPromise == 0

\* The launcher component before hydrateApps was called: useRef(null),
\* useState(false), no promise made.  returned and started record the last
\* startScan call: the promise it returned and whether it called
\* window.wolong.launcher.scan().
ScannerIdle ==
    [scanPromiseRef |-> NoPromise, promises |-> <<>>, isLoading |-> FALSE,
     hydrating |-> 0, returned |-> NoPromise, started |-> FALSE]

\* The clipboard runtime as the module is loaded: an empty Map, the flag
\* false.  watching is the state of the native watcher; destroyed, emitted
\* and listening are the webContents that are destroyed, whose 'destroyed'
\* event was emitted, and that hold a once('destroyed') listener of the
\* runtime; the last three fields record what has happened so far.
ClipboardIdle ==
    [clipboardSubscribers |-> [id \in {} |-> 0],
     clipboardWatcherAttached |-> FALSE,
     watching |-> FALSE, destroyed |-> {}, emitted |-> {}, listening |-> {},
     subscribeThrew |-> FALSE, unsubscribeThrew |-> FALSE, ops |-> {}]

\* state.streamId === null, state.sessionId === null
NoId == "null"

DEFAULT_OPTIONS ==
    [totalDuration |-> 1000, minSegments |-> 8, suggestedSegmentLength |-> 1]

\* createSmoothStreamProxy(options) before wrap's handler saw a chunk:
\* state, segmentTimers (the slices of the timers set and not yet fired or
\* cleared, in the order they were set) and doneTimer; forwarded lists the
\* calls of the wrapped handler, received the content that came in for the
\* stream of the proxy.
NewProxy(options) ==
    [options |-> options, streamId |-> NoId, sessionId |-> NoId,
     content |-> <<>>, sentIndex |-> 0, segmentsDelivered |-> 0,
     doneReceived |-> FALSE, doneDispatched |-> FALSE, disposed |-> FALSE,
     segmentTimers |-> <<>>, doneTimer |-> FALSE,
     forwarded |-> <<>>, received |-> <<>>]

\* No formatRelativeTime call was made.
NoLabel == [unit |-> "none", count |-> 0]

\* A number of milliseconds, held as whole minutes and the milliseconds
\* left over (0..59999): years of milliseconds are past the integers of
\* the model checker.
Ms(minutes, millis) == [minutes |-> minutes, millis |-> millis]

RelativeIdle == [timestamp |-> Ms(0, 0), now |-> Ms(0, 0), label |-> NoLabel]

ServicesIdle ==
    /\ scanner = ScannerIdle
    /\ clipboard = ClipboardIdle
    /\ proxy = NewProxy(DEFAULT_OPTIONS)
    /\ relative = RelativeIdle

\* A cache created empty by the constructor.
Init ==
    /\ arc \in {NewARC(c) : c \in 1..MaxCapacity}
    /\ now = 0
    /\ stored = NoItem
    /\ opened = <<>>
    /\ openResult = "none"
    /\ last = Call("new", 0, "none", "none", FALSE)
    /\ MatchIdle
    /\ RankIdle
    /\ ServicesIdle

\* A millisecond passes.
Tick ==
    /\ now < MaxNow
    /\ now' = now + 1
    /\ UNCHANGED <<arc, stored, opened, last, openResult, matchVars, rankVars, serviceVars>>

\* The accessCount of key in T1 or T2, 0 when it is in neither.
CountOf(a, key) ==
    IF MapHas(a.t1, key) THEN MapGet(a.t1, key).accessCount
    ELSE IF MapHas(a.t2, key) THEN MapGet(a.t2, key).accessCount
    ELSE 0

\* The methods of the class that read the cache.
ReadOps == {"getRecommended", "getAll", "get", "has", "getStats", "export"}

\* A call of a reading method: what it returns and the instance after it.
\* None of them assigns to a field or calls a method that does.
readCall(a, op, key) ==
    [arc |-> a,
     result |-> CASE op = "getRecommended" -> getRecommended(a)
                  [] op = "getAll" -> getAll(a)
                  [] op = "get" -> get(a, key)
                  [] op = "has" -> has(a, key)
                  [] op = "getStats" -> getStats(a)
                  [] op = "export" -> export(a)]

\* arc.getRecommended(), getAll(), get(key), has(key), getStats() or
\* export() is called; key is 0 for the methods without a parameter.
Read(op, key) ==
    /\ (op \in {"get", "has"}) = (key # 0)
    /\ arc' = readCall(arc, op, key).arc
    /\ last' = Call(op, key, "none", "none", FALSE)
    /\ UNCHANGED <<now, stored, opened, openResult, matchVars, rankVars, serviceVars>>

\* arc.access(key, value)
Access(key) ==
    /\ CountOf(arc, key) < MaxCount
    /\ arc' = access(arc, key, AppOf(key), now)
    /\ last' = Call("access", key, Classify(arc, key), "none", FALSE)
    /\ UNCHANGED <<now, stored, opened, openResult, matchVars, rankVars, serviceVars>>

Next ==
    \/ Tick
    \/ \E key \in Keys : Access(key)

Spec == Init /\ [][Next]_vars

\* Keys used by access() and the reading methods in the model of the reads.
NumReadKeys == 3

NextReads ==
    \/ \E key \in 1..NumReadKeys : Access(key)
    \/ \E op \in ReadOps, key \in 0..NumReadKeys : Read(op, key)

SpecReads == Init /\ [][NextReads]_vars

\* ----------------------------------------------- scorer specifications

\* No call of the scorer was made; the cache is the one of a first start.
InitScorer ==
    /\ arc = NewARC(MAX_RECOMMENDED)
    /\ now = 0
    /\ stored = NoItem
    /\ opened = <<>>
    /\ openResult = "none"
    /\ last = Call("new", 0, "none", "none", FALSE)
    /\ MatchIdle
    /\ RankIdle
    /\ ServicesIdle

NextField == \E input \in FieldInputs : scoreField(input[1], input[2])

SpecField == InitScorer /\ [][NextField]_vars

NextScorer == \E input \in AppInputs : bestMatch(input[1], input[2])

SpecScorer == InitScorer /\ [][NextScorer]_vars

NextPinyin == \E text \in PinyinTexts : expand(text)

SpecPinyin == InitScorer /\ [][NextPinyin]_vars

\* ------------------------------------------------------ launcher session

\* Applications the user launches in the modelled session.
NumApps == 5
\* launchApp() calls of the modelled session.
MaxLaunches == 6

Apps == 1..NumApps

\* The launches of an earlier session whose cache is still in localStorage:
\* eight applications opened once, seven of them opened again.
PriorSession == <<1, 2, 3, 4, 5, 6, 7, 8, 1, 2, 3, 4, 5, 6, 7>>

\* The cache after the launches of keys, one per millisecond from time t on.
RECURSIVE Replay(_, _, _)
Replay(a, keys, t) ==
    IF keys = <<>> THEN a
    ELSE Replay(access(a, Head(keys), AppOf(Head(keys)), t), Tail(keys), t + 1)

\* The ways the promise of window.wolong.launcher.open settles.
OpenResults == {"resolved", "rejected"}

\* The window starts: arcRef holds loadARC() of what an earlier session left
\* in localStorage, if any.
InitLauncher ==
    /\ \E prior \in {<<>>, PriorSession} :
          /\ stored = IF prior = <<>> THEN NoItem
                      ELSE saveARC(Replay(NewARC(MAX_RECOMMENDED), prior, 0))
          /\ now = Len(prior)
    /\ arc = loadARC(stored)
    /\ opened = <<>>
    /\ openResult = "none"
    /\ last = Call("load", 0, "none", "none", FALSE)
    /\ MatchIdle
    /\ RankIdle
    /\ ServicesIdle

\* launchApp with saveARC called before access instead of after it.
launchAppSaveBeforeAccess(id) ==
    /\ Len(opened) < MaxLaunches
    /\ arc' = access(arc, id, AppOf(id), now)
    /\ stored' = saveARC(arc)
    /\ opened' = Append(opened, id)
    /\ openResult' \in OpenResults
    /\ now' = now + 1
    /\ last' = Call("access", id, Classify(arc, id), "none", FALSE)
    /\ Render(apps, searchTerm, arc', FALSE, TRUE)
    /\ UNCHANGED <<matchVars, apps, searchTerm, serviceVars>>

\* launchApp(app): access, saveARC, setArcVersion, then launcher.open, whose
\* promise resolves or rejects (the rejection is caught and logged); the
\* render brings the memos up to date.  The next launch comes at a later
\* millisecond.
launchApp(id) ==
    /\ Len(opened) < MaxLaunches
    /\ arc' = access(arc, id, AppOf(id), now)
    /\ stored' = saveARC(arc')
    /\ opened' = Append(opened, id)
    /\ openResult' \in OpenResults
    /\ now' = now + 1
    /\ last' = Call("access", id, Classify(arc, id), "none", FALSE)
    /\ Render(apps, searchTerm, arc', FALSE, TRUE)
    /\ UNCHANGED <<matchVars, apps, searchTerm, serviceVars>>

\* The window is created again: arcRef holds loadARC() of the stored item.
Reload ==
    /\ arc' = loadARC(stored)
    /\ last' = Call("load", 0, "none", "none", FALSE)
    /\ apps' = <<>>
    /\ searchTerm' = <<>>
    /\ recommendedMemo' = <<>>
    /\ filtered' = <<>>
    /\ UNCHANGED <<now, stored, opened, openResult, matchVars, serviceVars>>

NextLauncher ==
    \/ \E id \in Apps : launchApp(id)
    \/ Reload

SpecLauncher == InitLauncher /\ [][NextLauncher]_vars

\* --------------------------------------------------------- ranking session

\* Longest scanned list of the ranking session, the large scan apart.
MaxScan == 2
\* launchApp() calls of the ranking session.
MaxRankLaunches == 1

\* A WindowLauncherApp.
App(id, name, launchPath, launchCount, lastLaunchedAt) ==
    [id |-> id, name |-> name, source |-> <<"p">>,
     launchPath |-> launchPath, launchCount |-> launchCount,
     lastLaunchedAt |-> lastLaunchedAt]

\* The applications the scanner reports: "Steam"; "steam", a shortcut of
\* the same name; "Stem", launched as often and as lately as "Steam";
\* "Stream", never launched; "Remove Steam", an uninstaller; "Maps", whose
\* path starts with "st".
ScanPool ==
    <<App(1, <<"S", "t", "e", "a", "m">>, <<"x">>, 2, 5),
      App(2, <<"s", "t", "e", "a", "m">>, <<"x", ".", "L", "N", "K">>, 9, 9),
      App(3, <<"S", "t", "e", "m">>, <<"x">>, 2, 5),
      App(4, <<"S", "t", "r", "e", "a", "m">>, <<"x">>, 2, Null),
      App(5, <<"R", "e", "m", "o", "v", "e", " ", "S", "t", "e", "a", "m">>,
          <<"x">>, 0, Null),
      App(6, <<"M", "a", "p", "s">>, <<"s", "t">>, 0, Null)>>

\* The scanned lists: up to MaxScan different applications of the pool, in
\* any order.
ScanLists ==
    {[i \in 1..Len(pick) |-> ScanPool[pick[i]]] :
        pick \in {p \in Strings(1..Len(ScanPool), MaxScan) :
                     \A i, j \in 1..Len(p) : i # j => p[i] # p[j]}}

\* A scan of more applications than MAX_RESULTS, each with a name of its
\* own that starts with "a": but for the first, which has the last name,
\* they come by name; the third and the sixth were launched once.
LargeScan ==
    [i \in 1..(MAX_RESULTS + 1) |->
        App(i,
            IF i = 1 THEN <<"a", "z", "z">>
            ELSE <<"a", LowerCaseLetters[(i \div 26) + 1],
                   LowerCaseLetters[(i % 26) + 1]>>,
            <<"x">>,
            IF i \in {3, 6} THEN 1 ELSE 0,
            Null)]

\* The text typed when the large scan arrives.
LargeScanTerm == <<"a">>

\* The texts typed into the input.
SearchTerms ==
    {<<>>, <<" ">>, <<"s">>, <<"S", "t", " ">>, <<"s", "m">>, <<"p">>,
     LargeScanTerm}

\* onChange of the input: setSearchTerm(event.target.value), then the
\* render.  A session that holds the large scan is followed to its next
\* scan only.
onChange(term) ==
    /\ Len(apps) <= MaxScan
    /\ searchTerm' = term
    /\ Render(apps, term, arc, FALSE, FALSE)
    /\ UNCHANGED <<cacheVars, matchVars, apps, serviceVars>>

\* setApps(next), called with a scan result, then the render.  A scan that
\* finds applications follows one that found none; the large scan comes
\* before the first launch, with LargeScanTerm typed.
setApps(next) ==
    /\ apps = <<>> \/ next = <<>>
    /\ Len(next) > MaxScan => opened = <<>> /\ searchTerm = LargeScanTerm
    /\ apps' = next
    /\ Render(next, searchTerm, arc, TRUE, FALSE)
    /\ UNCHANGED <<cacheVars, matchVars, searchTerm, serviceVars>>

\* Enter on the i-th application of the list on screen.
launchActive(i) ==
    /\ Len(apps) <= MaxScan
    /\ Len(opened) < MaxRankLaunches
    /\ launchApp(filtered[i].id)

NextRank ==
    \/ \E term \in SearchTerms : onChange(term)
    \/ \E next \in ScanLists \cup {LargeScan} : setApps(next)
    \/ \E i \in 1..Len(filtered) : launchActive(i)

SpecRank == InitLauncher /\ [][NextRank]_vars

\* ------------------------------------------------------- indexed lists

\* Longest list the indexer reports.
MaxIndexed == 3

\* The applications the indexer reports: four of one lower-cased name, two
\* shortcuts ("a.lnk", "b.LNK") and two programs; an uninstaller; "Maps".
IndexedPool ==
    <<App(1, <<"S", "t", "e", "a", "m">>, <<"a", ".", "l", "n", "k">>, 0, Null),
      App(2, <<"s", "t", "e", "a", "m">>, <<"b", ".", "L", "N", "K">>, 0, Null),
      App(3, <<"S", "T", "E", "A", "M">>, <<"c">>, 0, Null),
      App(4, <<"s", "t", "e", "a", "M">>, <<"d">>, 0, Null),
      App(5, <<"U", "n", "i", "n", "s", "t", "a", "l", "l">>, <<"e">>, 0, Null),
      App(6, <<"M", "a", "p", "s">>, <<"f">>, 0, Null)>>

\* The lists the indexer reports: up to MaxIndexed different applications
\* of the pool, in any order.
IndexedLists ==
    {[i \in 1..Len(pick) |-> IndexedPool[pick[i]]] :
        pick \in {p \in Strings(1..Len(IndexedPool), MaxIndexed) :
                     \A i, j \in 1..Len(p) : i # j => p[i] # p[j]}}

\* The listener of window.wolong.launcher.onIndexed: setApps(next), then
\* the render.
onIndexed(next) ==
    /\ apps' = next
    /\ Render(next, searchTerm, arc, TRUE, FALSE)
    /\ UNCHANGED <<cacheVars, matchVars, searchTerm, serviceVars>>

NextIndexed == \E next \in IndexedLists : onIndexed(next)

SpecIndexed == InitLauncher /\ [][NextIndexed]_vars

\* ------------------------------------------------------------------ scans

\* Promises startScan makes in one session.
MaxScans == 3
\* hydrateApps calls that wait for window.wolong.launcher.cache() at a time.
MaxHydrating == 2

\* What window.wolong.launcher.cache() and scan() resolve with.
ScanResults == {<<>>, <<ScanPool[1]>>, <<ScanPool[3], ScanPool[1]>>}

\* How the call window.wolong.launcher.scan() ends: it returns a promise
\* that startScan awaits, or it throws before anything is awaited.
ScanCalls == {"awaits", "throws"}

\* The promises whose scan has not settled.
InFlight(s) == {i \in 1..Len(s.promises) : s.promises[i] = "pending"}

\* startScan(): the pending promise is returned if scanPromiseRef holds
\* one.  Otherwise the async function runs up to its first await: when
\* scan() returns, the new promise is pending and is stored; when scan()
\* throws, catch and finally run at once (scanPromiseRef.current = null,
\* setIsLoading(false)), the async function ends, and the promise, settled
\* already, is stored in scanPromiseRef after that.
startScan(s, call) ==
    IF s.scanPromiseRef # NoPromise
    THEN [s EXCEPT !.returned = s.scanPromiseRef, !.started = FALSE]
    ELSE LET promise == Len(s.promises) + 1
         IN  [s EXCEPT !.promises =
                           Append(@, IF call = "awaits" THEN "pending"
                                     ELSE "fulfilled"),
                       !.isLoading = (call = "awaits"),
                       !.scanPromiseRef = promise,
                       !.returned = promise,
                       !.started = TRUE]

\* handleShortcut: setSearchTerm(''), the render, and hydrateApps() up to
\* its await of window.wolong.launcher.cache().
handleShortcut ==
    /\ scanner.hydrating < MaxHydrating
    /\ searchTerm' = <<>>
    /\ Render(apps, <<>>, arc, FALSE, FALSE)
    /\ scanner' = [scanner EXCEPT !.hydrating = @ + 1]
    /\ UNCHANGED <<cacheVars, matchVars, apps, clipboard, proxy, relative>>

\* hydrateApps after window.wolong.launcher.cache() settled: setApps(cached)
\* for a list that is not empty, then startScan().
cacheSettles(cached, threw, call) ==
    /\ scanner.hydrating > 0
    /\ scanner.scanPromiseRef = NoPromise => Len(scanner.promises) < MaxScans
    /\ LET set == ~threw /\ cached # <<>>
       IN  /\ apps' = IF set THEN cached ELSE apps
           /\ Render(apps', searchTerm, arc, set, FALSE)
    /\ scanner' = startScan([scanner EXCEPT !.hydrating = @ - 1], call)
    /\ UNCHANGED <<cacheVars, matchVars, searchTerm, clipboard, proxy, relative>>

\* The promise of window.wolong.launcher.scan() settles: setApps(scanned)
\* when it resolves, then finally: scanPromiseRef.current = null and
\* setIsLoading(false); the promise of startScan is fulfilled.
scanSettles(promise, scanned, rejected) ==
    /\ promise \in InFlight(scanner)
    /\ apps' = IF rejected THEN apps ELSE scanned
    /\ Render(apps', searchTerm, arc, ~rejected, FALSE)
    /\ scanner' = [scanner EXCEPT !.promises[promise] = "fulfilled",
                                  !.scanPromiseRef = NoPromise,
                                  !.isLoading = FALSE]
    /\ UNCHANGED <<cacheVars, matchVars, searchTerm, clipboard, proxy, relative>>

\* The launcher window of a first start after its first render: the effect
\* has called hydrateApps(), which waits for the cached list.
InitScan ==
    /\ arc = NewARC(MAX_RECOMMENDED)
    /\ now = 0
    /\ stored = NoItem
    /\ opened = <<>>
    /\ openResult = "none"
    /\ last = Call("load", 0, "none", "none", FALSE)
    /\ MatchIdle
    /\ RankIdle
    /\ scanner = [ScannerIdle EXCEPT !.hydrating = 1]
    /\ clipboard = ClipboardIdle
    /\ proxy = NewProxy(DEFAULT_OPTIONS)
    /\ relative = RelativeIdle

NextScan ==
    \/ handleShortcut
    \/ \E cached \in ScanResults, threw \in BOOLEAN, call \in ScanCalls :
          cacheSettles(cached, threw, call)
    \/ \E promise \in 1..MaxScans, scanned \in ScanResults,
          rejected \in BOOLEAN :
          scanSettles(promise, scanned, rejected)

SpecScan == InitScan /\ [][NextScan]_vars

\* ------------------------------------------------------ clipboard runtime

\* webContents that subscribe, by id.
NumContents == 2
Contents == 1..NumContents
\* Most references one webContents holds.
MaxRefs == 2

\* How native.unsubscribeClipboard() ends: it returns, or it throws with
\* the native watcher stopped or still watching.
UnsubscribeResults == {"returned", "threwStopped", "threwWatching"}

\* clipboardSubscribers.delete(id)
SubscribersDelete(subscribers, id) ==
    [j \in DOMAIN subscribers \ {id} |-> subscribers[j]]

\* clipboardSubscribers.set(id, { contents, refs }), or refs assigned on
\* the entry of id.
SubscribersSet(subscribers, id, refs) ==
    [j \in DOMAIN subscribers \cup {id} |->
        IF j = id THEN refs ELSE subscribers[j]]

\* native.unsubscribeClipboard() inside try/catch/finally.
NativeUnsubscribe(c, result) ==
    [c EXCEPT !.watching = (result = "threwWatching"),
              !.unsubscribeThrew = @ \/ result # "returned"]

\* attachClipboardWatcher(); ok: native.subscribeClipboard returns.
attachClipboardWatcher(c, ok) ==
    IF c.clipboardWatcherAttached THEN c
    ELSE IF ok THEN [c EXCEPT !.clipboardWatcherAttached = TRUE,
                              !.watching = TRUE]
    ELSE [c EXCEPT !.subscribeThrew = TRUE]

\* teardownClipboardWatcherIfIdle()
teardownClipboardWatcherIfIdle(c, result) ==
    IF DOMAIN c.clipboardSubscribers = {} /\ c.clipboardWatcherAttached
    THEN [NativeUnsubscribe(c, result) EXCEPT
              !.clipboardWatcherAttached = FALSE]
    ELSE c

\* unsubscribeClipboardContents(id) that keeps the entry whose reference
\* count reached 0.
unsubscribeKeepingEntry(c, id, result) ==
    IF id \notin DOMAIN c.clipboardSubscribers THEN c
    ELSE teardownClipboardWatcherIfIdle(
             [c EXCEPT !.clipboardSubscribers =
                           SubscribersSet(@, id, Max(@[id] - 1, 0))],
             result)

\* subscribeClipboardContents(contents) for the webContents of this id: a
\* first subscription registers the once('destroyed') listener.  The
\* listeners of one webContents do the same thing, so that it has one or
\* more of them is all that is kept.
subscribeClipboardContents(c, id, ok) ==
    attachClipboardWatcher(
        IF id \in DOMAIN c.clipboardSubscribers
        THEN [c EXCEPT !.clipboardSubscribers = SubscribersSet(@, id, @[id] + 1)]
        ELSE [c EXCEPT !.clipboardSubscribers = SubscribersSet(@, id, 1),
                       !.listening = @ \cup {id}],
        ok)

\* unsubscribeClipboardContents(id)
unsubscribeClipboardContents(c, id, result) ==
    IF id \notin DOMAIN c.clipboardSubscribers THEN c
    ELSE LET refs == Max(c.clipboardSubscribers[id] - 1, 0)
         IN  teardownClipboardWatcherIfIdle(
                 [c EXCEPT !.clipboardSubscribers =
                               IF refs = 0 THEN SubscribersDelete(@, id)
                               ELSE SubscribersSet(@, id, refs)],
                 result)

\* The listener of 'destroyed' subscribeClipboardContents registers.
onDestroyed(c, id, result) ==
    teardownClipboardWatcherIfIdle(
        [c EXCEPT !.clipboardSubscribers = SubscribersDelete(@, id)], result)

\* broadcastClipboardUpdate(item) for an item mapClipboardItem accepts:
\* the entries of destroyed webContents are deleted, the others are sent
\* the payload.
broadcastClipboardUpdate(c, result) ==
    LET alive == DOMAIN c.clipboardSubscribers \ c.destroyed
        swept == [c EXCEPT !.clipboardSubscribers =
                               [j \in alive |-> c.clipboardSubscribers[j]]]
    IN  IF alive = {} THEN teardownClipboardWatcherIfIdle(swept, result)
        ELSE swept

\* shutdownClipboardWatcher()
shutdownClipboardWatcher(c, result) ==
    IF ~c.clipboardWatcherAttached THEN c
    ELSE [NativeUnsubscribe(c, result) EXCEPT
              !.clipboardWatcherAttached = FALSE,
              !.clipboardSubscribers = [id \in {} |-> 0]]

\* The runtime c after the operation op.
After(c, op) == [c EXCEPT !.ops = @ \cup {op}]

\* ipcMain.on('clipboard:subscribe'): a live webContents subscribes.
Subscribe(id, ok) ==
    /\ id \notin clipboard.destroyed
    /\ id \in DOMAIN clipboard.clipboardSubscribers
           => clipboard.clipboardSubscribers[id] < MaxRefs
    /\ clipboard' = After(subscribeClipboardContents(clipboard, id, ok),
                          "subscribe")
    /\ UNCHANGED <<cacheVars, matchVars, rankVars, scanner, proxy, relative>>

\* ipcMain.on('clipboard:unsubscribe')
Unsubscribe(id, result) ==
    /\ clipboard' = After(unsubscribeClipboardContents(clipboard, id, result),
                          "unsubscribe")
    /\ UNCHANGED <<cacheVars, matchVars, rankVars, scanner, proxy, relative>>

\* A webContents is destroyed: isDestroyed() is true from now on.
Destroy(id) ==
    /\ id \notin clipboard.destroyed
    /\ clipboard' = [clipboard EXCEPT !.destroyed = @ \cup {id}]
    /\ UNCHANGED <<cacheVars, matchVars, rankVars, scanner, proxy, relative>>

\* The 'destroyed' event of a destroyed webContents is emitted: its once
\* listeners run and are gone.
Destroyed(id, result) ==
    /\ id \in clipboard.destroyed \ clipboard.emitted
    /\ clipboard' =
          After([(IF id \in clipboard.listening
                  THEN onDestroyed(clipboard, id, result)
                  ELSE clipboard) EXCEPT !.emitted = @ \cup {id},
                                         !.listening = @ \ {id}],
                "destroyed")
    /\ UNCHANGED <<cacheVars, matchVars, rankVars, scanner, proxy, relative>>

\* The native watcher calls back: with an error or without an item
\* mapClipboardItem accepts nothing happens, otherwise the item is
\* broadcast.
Broadcast(accepted, result) ==
    /\ clipboard.watching
    /\ clipboard' =
          After(IF accepted THEN broadcastClipboardUpdate(clipboard, result)
                ELSE clipboard,
                "broadcast")
    /\ UNCHANGED <<cacheVars, matchVars, rankVars, scanner, proxy, relative>>

\* The application quits.
Shutdown(result) ==
    /\ clipboard' = After(shutdownClipboardWatcher(clipboard, result),
                          "shutdown")
    /\ UNCHANGED <<cacheVars, matchVars, rankVars, scanner, proxy, relative>>

InitClipboard ==
    /\ arc = NewARC(MAX_RECOMMENDED)
    /\ now = 0
    /\ stored = NoItem
    /\ opened = <<>>
    /\ openResult = "none"
    /\ last = Call("new", 0, "none", "none", FALSE)
    /\ MatchIdle
    /\ RankIdle
    /\ ServicesIdle

NextClipboard ==
    \/ \E id \in Contents, ok \in BOOLEAN : Subscribe(id, ok)
    \/ \E id \in Contents, result \in UnsubscribeResults :
          Unsubscribe(id, result)
    \/ \E id \in Contents : Destroy(id)
    \/ \E id \in Contents, result \in UnsubscribeResults :
          Destroyed(id, result)
    \/ \E accepted \in BOOLEAN, result \in UnsubscribeResults :
          Broadcast(accepted, result)
    \/ \E result \in UnsubscribeResults : Shutdown(result)

SpecClipboard == InitClipboard /\ [][NextClipboard]_vars

\* -------------------------------------------------- smoothing stream proxy

\* Characters that come in for one stream.
MaxContent == 4
\* Longest content of one chunk.
MaxChunkLen == 2

\* The streams chunks belong to, and the session ids they carry ('' for a
\* chunk without one).
StreamIds == {"s1", "s2"}
SessionIds == {"", "c1"}

\* The options a proxy is created with: the defaults; slices of two
\* characters and no minimum of segments; no duration at all.
ProxyOptions ==
    {DEFAULT_OPTIONS,
     [totalDuration |-> 1000, minSegments |-> 0, suggestedSegmentLength |-> 2],
     [totalDuration |-> 0, minSegments |-> 8, suggestedSegmentLength |-> 1]}

\* Math.ceil(a / b) for a >= 0 and b > 0
CeilDiv(a, b) == (a + b - 1) \div b

\* input.slice(offset): the characters after the first offset ones.
SliceFrom(input, offset) == SubSeq(input, offset + 1, Len(input))

\* The for loop of sliceText.
RECURSIVE sliceLoop(_, _, _)
sliceLoop(input, offset, remainingParts) ==
    IF remainingParts > 0 /\ offset < Len(input)
    THEN LET remainingChars == Len(input) - offset
             size == CeilDiv(remainingChars, remainingParts)
             nextOffset == offset + size
         IN  <<SubSeq(input, offset + 1, Min(nextOffset, Len(input)))>>
                 \o sliceLoop(input, nextOffset, remainingParts - 1)
    ELSE <<>>

\* sliceText(input, parts)
sliceText(input, parts) ==
    IF parts <= 0 \/ input = <<>> THEN <<>>
    ELSE IF parts = 1 THEN <<input>>
    ELSE sliceLoop(input, 0, parts)

\* The chunk the proxy hands to the handler: sessionId is
\* state.sessionId ?? streamId.
Forward(x, content, done) ==
    [content |-> content, done |-> done,
     sessionId |-> IF x.sessionId = NoId THEN x.streamId ELSE x.sessionId]

\* dispose(): both kinds of timers are cleared.
dispose(x) ==
    IF x.disposed THEN x
    ELSE [x EXCEPT !.disposed = TRUE, !.segmentTimers = <<>>,
                   !.doneTimer = FALSE]

\* deliverSegment(streamId, segment); the handler is the one wrap() was
\* given.
deliverSegment(x, segment) ==
    IF x.disposed \/ segment = <<>> THEN x
    ELSE [x EXCEPT !.segmentsDelivered = @ + 1,
                   !.sentIndex = Min(@ + Len(segment), Len(x.content)),
                   !.forwarded = Append(@, Forward(x, segment, FALSE))]

\* deliverSegment for every slice, in order.
RECURSIVE deliverAll(_, _)
deliverAll(x, slices) ==
    IF slices = <<>> THEN x
    ELSE deliverAll(deliverSegment(x, Head(slices)), Tail(slices))

\* scheduleDone(streamId).  reschedule, its only caller, has set
\* state.deadline to performance.now() + totalDuration, which is not 0, so
\* the done chunk always waits for the timer.
scheduleDone(x) ==
    IF ~x.doneReceived \/ x.doneDispatched \/ x.disposed
    THEN [x EXCEPT !.doneTimer = FALSE]
    ELSE [x EXCEPT !.doneTimer = TRUE]

\* The callback of doneTimer that forwards the done chunk without the
\* content not yet sent.
doneTimerCallbackWithoutRemainder(x) ==
    LET fired == [x EXCEPT !.doneTimer = FALSE]
    IN  IF fired.disposed THEN fired
        ELSE dispose([fired EXCEPT
                          !.doneDispatched = TRUE,
                          !.forwarded = Append(@, Forward(x, <<>>, TRUE))])

\* The callback of doneTimer: what is left of the content is forwarded as
\* one chunk, then the done chunk, then dispose().
doneTimerCallback(x) ==
    LET fired == [x EXCEPT !.doneTimer = FALSE]
        remainder == SliceFrom(fired.content, fired.sentIndex)
        flushed ==
            IF fired.sentIndex < Len(fired.content)
            THEN [fired EXCEPT
                      !.sentIndex = Len(fired.content),
                      !.forwarded = Append(@, Forward(x, remainder, FALSE))]
            ELSE fired
    IN  IF fired.disposed THEN fired
        ELSE dispose(IF ~flushed.doneDispatched
                     THEN [flushed EXCEPT
                               !.doneDispatched = TRUE,
                               !.forwarded = Append(@, Forward(x, <<>>, TRUE))]
                     ELSE flushed)

\* reschedule(streamId): remainingTime is totalDuration, as deadline is set
\* from the same reading of the clock.
reschedule(x) ==
    LET cleared == [x EXCEPT !.segmentTimers = <<>>]
        remainingText == SliceFrom(x.content, x.sentIndex)
        segmentsFromLength ==
            CeilDiv(Len(remainingText), x.options.suggestedSegmentLength)
        segmentsNeededForMinimum ==
            Max(0, x.options.minSegments - x.segmentsDelivered)
        segmentCount ==
            Min(Max(1, Max(segmentsFromLength, segmentsNeededForMinimum)),
                Len(remainingText))
        slices == sliceText(remainingText, segmentCount)
    IN  IF x.disposed THEN x
        ELSE IF remainingText = <<>> THEN scheduleDone(cleared)
        ELSE IF slices = <<>> THEN scheduleDone(cleared)
        ELSE IF x.options.totalDuration <= 0
        THEN scheduleDone(deliverAll(cleared, slices))
        ELSE scheduleDone([cleared EXCEPT !.segmentTimers = slices])

\* handleChunk(streamId, chunk)
handleChunk(x, streamId, chunk) ==
    LET latched == IF x.streamId = NoId THEN [x EXCEPT !.streamId = streamId]
                   ELSE x
    IN  IF x.disposed THEN x
        ELSE IF latched.streamId # streamId THEN latched
        ELSE reschedule(
                 [latched EXCEPT
                      !.sessionId = IF chunk.sessionId # "" THEN chunk.sessionId
                                    ELSE @,
                      !.content = @ \o chunk.content,
                      !.doneReceived = @ \/ chunk.done])

\* The chunk is one of the stream the proxy relays.
OfProxiedStream(x, streamId) ==
    x.streamId = streamId \/ (x.streamId = NoId /\ ~x.disposed)

\* window.wolong.chat.onStreamChunk delivers a chunk to the function wrap()
\* returned.  The characters of the relayed stream are numbered as they
\* come in; those of another stream are 0.
onStreamChunk(streamId, length, done, sessionId) ==
    LET proxied == OfProxiedStream(proxy, streamId)
        content == [i \in 1..length |->
                       IF proxied THEN Len(proxy.received) + i ELSE 0]
        chunk == [content |-> content, done |-> done, sessionId |-> sessionId]
    IN  /\ Len(proxy.received) + length <= MaxContent
        /\ proxy' = [handleChunk(proxy, streamId, chunk) EXCEPT
                         !.received = IF proxied THEN @ \o content ELSE @]
        /\ UNCHANGED <<cacheVars, matchVars, rankVars, scanner, clipboard, relative>>

\* The segment timer that is due first fires: timers set one after another
\* with delays that do not decrease fire in the order they were set.
segmentTimerFires ==
    /\ proxy.segmentTimers # <<>>
    /\ proxy' = deliverSegment([proxy EXCEPT !.segmentTimers = Tail(@)],
                               Head(proxy.segmentTimers))
    /\ UNCHANGED <<cacheVars, matchVars, rankVars, scanner, clipboard, relative>>

\* doneTimer fires, with segment timers still to fire or not.
doneTimerFires ==
    /\ proxy.doneTimer
    /\ proxy' = doneTimerCallback(proxy)
    /\ UNCHANGED <<cacheVars, matchVars, rankVars, scanner, clipboard, relative>>

\* The function onSmoothingStreamChunk returned is called: proxy.dispose().
unsubscribeStream ==
    /\ ~proxy.disposed
    /\ proxy' = dispose(proxy)
    /\ UNCHANGED <<cacheVars, matchVars, rankVars, scanner, clipboard, relative>>

InitProxy ==
    /\ arc = NewARC(MAX_RECOMMENDED)
    /\ now = 0
    /\ stored = NoItem
    /\ opened = <<>>
    /\ openResult = "none"
    /\ last = Call("new", 0, "none", "none", FALSE)
    /\ MatchIdle
    /\ RankIdle
    /\ scanner = ScannerIdle
    /\ clipboard = ClipboardIdle
    /\ proxy \in {NewProxy(options) : options \in ProxyOptions}
    /\ relative = RelativeIdle

NextProxy ==
    \/ \E streamId \in StreamIds, length \in 0..MaxChunkLen,
          done \in BOOLEAN, sessionId \in SessionIds :
          onStreamChunk(streamId, length, done, sessionId)
    \/ segmentTimerFires
    \/ doneTimerFires
    \/ unsubscribeStream

SpecProxy == InitProxy /\ [][NextProxy]_vars

\* ------------------------------------------------------- relative times

\* Milliseconds of a minute, minutes of a day.
MinuteMs == 60000
DayMinutes == 1440

\* a >= b for two numbers of milliseconds
MsAtLeast(a, b) ==
    a.minutes > b.minutes \/ (a.minutes = b.minutes /\ a.millis >= b.millis)

\* a + b and a - b (for a >= b) on numbers of milliseconds
MsPlus(a, b) ==
    Ms(a.minutes + b.minutes + (a.millis + b.millis) \div MinuteMs,
       (a.millis + b.millis) % MinuteMs)
MsMinus(a, b) ==
    IF a.millis >= b.millis
    THEN Ms(a.minutes - b.minutes, a.millis - b.millis)
    ELSE Ms(a.minutes - b.minutes - 1, a.millis + MinuteMs - b.millis)

\* A label: "just now", or count and unit for `${count}${unit} ago`.
Label(unit, count) == [unit |-> unit, count |-> count]

\* formatRelativeTime(timestamp, now)
formatRelativeTime(timestamp, nowMs) ==
    LET delta == IF MsAtLeast(nowMs, timestamp) THEN MsMinus(nowMs, timestamp)
                 ELSE Ms(0, 0)
        minutes == delta.minutes
        hours == minutes \div 60
        days == hours \div 24
        weeks == days \div 7
        months == days \div 30
        years == days \div 365
    IN  IF minutes < 1 THEN Label("just now", 0)
        ELSE IF minutes < 60 THEN Label("m", minutes)
        ELSE IF hours < 24 THEN Label("h", hours)
        ELSE IF days < 7 THEN Label("d", days)
        ELSE IF weeks < 4 THEN Label("w", weeks)
        ELSE IF months < 12 THEN Label("mo", months)
        ELSE Label("y", years)

\* The clock of the tests: 2024-06-01T12:00:00Z, and half a minute later.
TestNow == {Ms(28620720, 0), Ms(28620720, 30000)}

\* Distances between timestamp and now: around every threshold of the
\* function, and those of the tests.
Distances ==
    {Ms(m, ms) :
        m \in {0, 1, 5, 59, 60, 120, DayMinutes - 1, DayMinutes,
               3 * DayMinutes, 7 * DayMinutes - 1, 7 * DayMinutes,
               14 * DayMinutes, 28 * DayMinutes - 1, 28 * DayMinutes,
               30 * DayMinutes - 1, 30 * DayMinutes, 80 * DayMinutes,
               360 * DayMinutes - 1, 360 * DayMinutes,
               365 * DayMinutes - 1, 365 * DayMinutes, 400 * DayMinutes},
        ms \in {0, 20000, MinuteMs - 1}}

\* The calls: a timestamp that far before now, or that far after it.
TimeInputs ==
    {[timestamp |-> MsMinus(n, d), now |-> n] : n \in TestNow, d \in Distances}
        \cup {[timestamp |-> MsPlus(n, d), now |-> n] :
                 n \in TestNow, d \in Distances}

\* formatRelativeTime is called with the arguments chosen.
format ==
    /\ relative.label = NoLabel
    /\ relative' = [relative EXCEPT
                        !.label = formatRelativeTime(relative.timestamp,
                                                     relative.now)]
    /\ UNCHANGED <<cacheVars, matchVars, rankVars, scanner, clipboard, proxy>>

InitRelative ==
    /\ arc = NewARC(MAX_RECOMMENDED)
    /\ now = 0
    /\ stored = NoItem
    /\ opened = <<>>
    /\ openResult = "none"
    /\ last = Call("new", 0, "none", "none", FALSE)
    /\ MatchIdle
    /\ RankIdle
    /\ scanner = ScannerIdle
    /\ clipboard = ClipboardIdle
    /\ proxy = NewProxy(DEFAULT_OPTIONS)
    /\ \E input \in TimeInputs :
          relative = [timestamp |-> input.timestamp, now |-> input.now,
                      label |-> NoLabel]

NextRelative == format

SpecRelative == InitRelative /\ [][NextRelative]_vars

\* ------------------------------------------------ import of stored records

\* An entry [key, item] of a stored list.
StoredEntry(key, count) ==
    <<key, [key |-> key, value |-> AppOf(key), lastAccessed |-> 0,
            accessCount |-> count]>>

\* A stored record with the given lists, p and capacity.
StoredRecord(t1, t2, b1, b2, p, capacity) ==
    [t1 |-> t1, t2 |-> t2, b1 |-> b1, b2 |-> b2,
     p |-> JsNum(p), capacity |-> JsNum(capacity)]

\* Records import() may be handed: one an export() wrote, and records that
\* are malformed in one way each.
ImportInput ==
    [exported  |-> export(Replay(NewARC(2), <<1, 2, 1>>, 0)),
     noLists   |-> StoredRecord(JsUndef, JsUndef, JsUndef, JsUndef, 0, 2),
     t1Number  |-> StoredRecord(JsNum(7), JsArr(<<>>), JsArr(<<>>), JsArr(<<>>), 0, 2),
     t2Number  |-> StoredRecord(JsArr(<<StoredEntry(2, 1)>>), JsNum(7),
                                JsArr(<<>>), JsArr(<<>>), 0, 2),
     b2Number  |-> StoredRecord(JsArr(<<>>), JsArr(<<StoredEntry(2, 2)>>),
                                JsArr(<<StoredEntry(1, 1)>>), JsNum(7), 1, 2),
     sharedKey |-> StoredRecord(JsArr(<<StoredEntry(1, 1)>>),
                                JsArr(<<StoredEntry(1, 2)>>),
                                JsArr(<<>>), JsArr(<<>>), 0, 2),
     negCount  |-> StoredRecord(JsArr(<<StoredEntry(1, -1)>>), JsArr(<<>>),
                                JsArr(<<>>), JsArr(<<>>), 0, 2),
     negP      |-> StoredRecord(JsArr(<<StoredEntry(1, 1)>>), JsArr(<<>>),
                                JsArr(<<>>), JsArr(<<>>), -1, 2)]

InputNames == DOMAIN ImportInput

\* Keys used by access() calls in the model of import.
NumImportKeys == 2

\* arc.import(data) on the live instance; the caller catches what it throws.
Import(name) ==
    /\ arc' = import(arc, ImportInput[name]).arc
    /\ last' = Call("import", 0, "none", name, import(arc, ImportInput[name]).threw)
    /\ UNCHANGED <<now, stored, opened, openResult, matchVars, rankVars, serviceVars>>

\* The window starts with JSON.stringify(data) in localStorage: loadARC().
Load(name) ==
    /\ stored' = JSONstringify(ImportInput[name])
    /\ arc' = loadARC(stored')
    /\ last' = Call("load", 0, "none", name, FALSE)
    /\ UNCHANGED <<now, opened, openResult, matchVars, rankVars, serviceVars>>

NextImport ==
    \/ Tick
    \/ \E key \in 1..NumImportKeys : Access(key)
    \/ \E name \in InputNames : Import(name)
    \/ \E name \in InputNames : Load(name)

SpecImport == Init /\ [][NextImport]_vars

\* ================================================================ claims

\* The names of the four lists.
ListNames == {"t1", "t2", "b1", "b2"}

\* The lists of cache a that hold key.
ListsHolding(a, key) == {l \in ListNames : MapHas(a[l], key)}

\* C1: after any sequence of access() calls on a cache created empty, no key
\* is present in more than one of the four lists T1, T2, B1, B2.
C1_ListsDisjoint ==
    \A key \in Keys : Cardinality(ListsHolding(arc, key)) <= 1

\* C1 witness: accesses have filled all four lists.
C1_Witness ==
    /\ last.op = "access"
    /\ \A l \in ListNames : arc[l] # <<>>

\* C2 as stated: |T1| + |B1| <= capacity every time access() returns.
C2_L1WithinCapacity ==
    last.op = "access" => Len(arc.t1) + Len(arc.b1) <= arc.capacity

\* C3 as stated: |T1| + |T2| + |B1| + |B2| <= 2 * capacity every time
\* access() returns.
C3_TotalWithinTwiceCapacity ==
    last.op = "access" =>
        Len(arc.t1) + Len(arc.t2) + Len(arc.b1) + Len(arc.b2) <= 2 * arc.capacity

\* The keys getRecommended() returns, in order.
RecommendedKeys(a) == [i \in 1..Len(a.t2) |-> getRecommended(a)[i].key]

\* Cache y is cache x again: the same lists in the same order, p and
\* capacity; every access then falls in the same case and leaves the same
\* recommendations.
BehavesAs(y, x) ==
    /\ y = x
    /\ \A key \in Keys :
          /\ Classify(y, key) = Classify(x, key)
          /\ RecommendedKeys(access(y, key, AppOf(key), now))
                = RecommendedKeys(access(x, key, AppOf(key), now))

\* C4: for every cache x reachable by access() calls, import(export(x)),
\* also through the JSON text of saveARC/loadARC, is a cache that behaves as
\* x: each access falls in the same case and getRecommended() returns the
\* same keys in the same order.
C4_RoundTrip ==
    /\ ~import(NewARC(MAX_RECOMMENDED), export(arc)).threw
    /\ BehavesAs(import(NewARC(MAX_RECOMMENDED), export(arc)).arc, arc)
    /\ BehavesAs(loadARC(saveARC(arc)), arc)

\* C4 witness: a cache with p raised, two entries in T2 and both ghost lists
\* in use.
C4_Witness ==
    /\ last.op = "access"
    /\ arc.p >= 1
    /\ Len(arc.t2) >= 2
    /\ arc.b1 # <<>> /\ arc.b2 # <<>>

\* The entries of the list fields of a stored record.
StoredEntries(data) ==
    [l \in ListNames |-> IF data[l].kind = "array" THEN data[l].entries ELSE <<>>]

\* Malformed persisted state: a wrong shape (a list that is no array, p or
\* capacity that is no number), a negative count, or a key in more than one
\* list.
Malformed(data) ==
    \/ \E l \in ListNames : data[l].kind # "array"
    \/ data.p.kind # "number" \/ data.capacity.kind # "number"
    \/ data.p.n < 0
    \/ \E l \in ListNames : \E i \in 1..Len(StoredEntries(data)[l]) :
          StoredEntries(data)[l][i][2].accessCount < 0
    \/ \E l1, l2 \in ListNames :
          /\ l1 # l2
          /\ KeySet(StoredEntries(data)[l1]) \cap KeySet(StoredEntries(data)[l2]) # {}

\* C5 as stated: loading malformed persisted state results in a fresh empty
\* cache with p = 0, in which no key is in two lists.
C5_MalformedRejected ==
    (/\ last.op = "load"
     /\ last.input \in InputNames
     /\ Malformed(ImportInput[last.input])) =>
        /\ \A l \in ListNames : arc[l] = <<>>
        /\ arc.p = 0
        /\ \A key \in Keys : Cardinality(ListsHolding(arc, key)) <= 1

\* C6 as stated: an import() call that fails leaves T1, T2, B1, B2, p and
\* capacity as they were before the call.
C6_FailedImportChangesNothing ==
    [][(last'.op = "import" /\ last'.threw) => arc' = arc]_vars

\* C7 as stated: getRecommended() returns exactly the entries of T2, the
\* most recently accessed entry first.
C7_MostRecentFirst ==
    LET r == getRecommended(arc)
    IN  /\ Len(r) = Len(arc.t2)
        /\ {r[i].key : i \in 1..Len(r)} = KeySet(arc.t2)
        /\ \A i, j \in 1..Len(r) : i < j => r[i].lastAccessed >= r[j].lastAccessed

\* C7 amended: getRecommended() returns exactly the entries of T2, the least
\* recently accessed entry first; an entry that the last access left in T2
\* is the last one returned.
C7_LeastRecentFirst ==
    LET r == getRecommended(arc)
    IN  /\ Len(r) = Len(arc.t2)
        /\ {r[i].key : i \in 1..Len(r)} = KeySet(arc.t2)
        /\ \A i, j \in 1..Len(r) : i < j => r[i].lastAccessed <= r[j].lastAccessed
        /\ (last.op = "access" /\ MapHas(arc.t2, last.key)) =>
               r[Len(r)].key = last.key

\* C7 witness: T2 holds entries accessed at different times, the last access
\* having been a hit in T2.
C7_Witness ==
    /\ last.op = "access" /\ last.case = "T2"
    /\ Len(arc.t2) >= 2
    /\ arc.t2[1][2].lastAccessed < arc.t2[Len(arc.t2)][2].lastAccessed

\* A session that started with nothing stored: its clock counts its launches.
FreshSession == now = Len(opened)

\* The first n launches went to n different applications.
DistinctLaunches(n) ==
    \A i, j \in 1..n : i # j => opened[i] # opened[j]

\* C8: on a cache created empty with capacity 5, five distinct keys are five
\* misses, and after the first of them is accessed again it is no longer in
\* T1, is in T2 and is among the entries getRecommended() returns.
C8_SecondAccessPromotes ==
    /\ arc.capacity = MAX_RECOMMENDED
    /\ (/\ FreshSession
        /\ last.op = "access"
        /\ Len(opened) <= 5
        /\ DistinctLaunches(Len(opened))) => last.case = "miss"
    /\ (/\ FreshSession
        /\ Len(opened) = 6
        /\ DistinctLaunches(5)
        /\ opened[6] = opened[1]) =>
            /\ ~MapHas(arc.t1, opened[1])
            /\ MapHas(arc.t2, opened[1])
            /\ \E i \in 1..Len(getRecommended(arc)) :
                  getRecommended(arc)[i].key = opened[1]

\* C8 witness: a, b, c, d, e and then a again, the last access a hit in T1.
C8_Witness ==
    /\ FreshSession
    /\ opened = <<1, 2, 3, 4, 5, 1>>
    /\ last.op = "access" /\ last.case = "T1" /\ last.key = 1

\* C9: p is an integer with 0 <= p <= capacity in every state reachable by
\* access() calls from a cache created empty.
C9_PWithinCapacity ==
    /\ arc.p \in Int
    /\ 0 <= arc.p /\ arc.p <= arc.capacity

\* C9 witness: a ghost hit in B1 has raised p to the capacity.
C9_Witness ==
    /\ last.op = "access" /\ last.case = "B1"
    /\ arc.p = arc.capacity

\* The ids of every application a session has seen.
KnownIds == Apps \cup {PriorSession[i] : i \in 1..Len(PriorSession)}

\* The ids lo..hi in ascending order.
IdRange(lo, hi) == [i \in 1..(hi - lo + 1) |-> lo + i - 1]

\* Candidate lists the launcher may hold: the runs of consecutive ids.
CandidateLists ==
    {IdRange(lo, hi) : lo \in KnownIds, hi \in KnownIds \cup {0}}

\* The ids of a candidate list.
IdsOf(list) == {list[i] : i \in 1..Len(list)}

\* lastAccessed of the T2 entry of key.
RecencyOf(a, key) == MapGet(a.t2, key).lastAccessed

\* C10: for an empty query the result is the first MAX_RECOMMENDED of the
\* T2 entries whose application is in the candidate list, most recently
\* accessed first: nothing outside T2, nothing outside the list, nothing
\* twice, and nothing left out that was accessed later than a returned one.
C10_RecommendedForEmptyQuery ==
    \A list \in CandidateLists :
        LET r == recommendedApps(arc, list)
            eligible == KeySet(arc.t2) \cap IdsOf(list)
            returned == {r[i] : i \in 1..Len(r)}
        IN  /\ returned \subseteq eligible
            /\ Len(r) = Min(MAX_RECOMMENDED, Cardinality(eligible))
            /\ Cardinality(returned) = Len(r)
            /\ \A i, j \in 1..Len(r) :
                  i < j => RecencyOf(arc, r[i]) >= RecencyOf(arc, r[j])
            /\ \A key \in eligible \ returned : \A i \in 1..Len(r) :
                  RecencyOf(arc, r[i]) >= RecencyOf(arc, key)

\* C10 witness: after a launch of this session, one candidate list has more
\* than MAX_RECOMMENDED of its applications in T2 and another misses an
\* application that is in T2.
C10_Witness ==
    /\ last.op = "access" /\ MapHas(arc.t2, last.key)
    /\ \E list \in CandidateLists :
          Cardinality(KeySet(arc.t2) \cap IdsOf(list)) > MAX_RECOMMENDED
    /\ \E list \in CandidateLists :
          /\ KeySet(arc.t2) \cap IdsOf(list) # {}
          /\ KeySet(arc.t2) \ IdsOf(list) # {}

\* The candidates rank() works on: the de-duplicated list of the scan.
Candidates == deduplicatedApps(apps)

\* The query of the list on screen.
Shard == toLowerCase(trim(searchTerm))

\* The candidates of list that have a match for query.
MatchingOf(list, query) ==
    {app \in {list[i] : i \in 1..Len(list)} :
        getBestMatchForApp(app, query) # NoMatch}

\* C11: for a non-empty query the list on screen holds only candidates with
\* a match, none of them twice and never more than MAX_RESULTS; when no
\* more than MAX_RESULTS candidates have a match it holds every one of
\* them, and MAX_RESULTS of them otherwise.
C11_ExactlyTheMatches ==
    LET matching == MatchingOf(Candidates, Shard)
        returned == {filtered[k] : k \in 1..Len(filtered)}
    IN  Shard # <<>> =>
            /\ returned \subseteq matching
            /\ Cardinality(returned) = Len(filtered)
            /\ Len(filtered) = Min(Cardinality(matching), MAX_RESULTS)
            /\ Cardinality(matching) <= MAX_RESULTS => matching \subseteq returned

\* C11 witness: a scan with more than MAX_RESULTS matches is on screen, cut
\* to MAX_RESULTS.
C11_Witness ==
    /\ Shard # <<>>
    /\ Len(filtered) = MAX_RESULTS
    /\ Cardinality(MatchingOf(Candidates, Shard)) > MAX_RESULTS

\* The numbers the result is ordered by before the name: the three scores
\* ascending, the launch count and the time of the last launch descending.
SortKey(app) ==
    LET m == getBestMatchForApp(app, Shard)
    IN  <<m.totalScore, m.baseScore, m.fieldWeight,
          0 - OrZero(app.launchCount), 0 - OrZero(app.lastLaunchedAt)>>

\* C12: for a non-empty query, of two neighbours of the list on screen the
\* earlier one has the smaller key (totalScore, baseScore, fieldWeight,
\* launch count descending, last launch descending), or the same key and a
\* name that is not behind the name of the later one.
C12_SortedResults ==
    Shard # <<>> =>
        \A k \in 1..(Len(filtered) - 1) :
            \/ LexLess(SortKey(filtered[k]), SortKey(filtered[k + 1]))
            \/ /\ SortKey(filtered[k]) = SortKey(filtered[k + 1])
               /\ localeCompare(filtered[k].name, filtered[k + 1].name) <= 0

\* C12 witness: two neighbours on screen have equal scores and are ordered
\* by their launch counts, and the scan delivered them the other way round.
C12_Witness ==
    /\ Shard # <<>>
    /\ Len(filtered) = 2 /\ Len(apps) = 2
    /\ filtered[1] = apps[2]
    /\ SubSeq(SortKey(filtered[1]), 1, 3) = SubSeq(SortKey(filtered[2]), 1, 3)
    /\ filtered[1].launchCount > filtered[2].launchCount

\* C13: the list on screen is the value filteredApps has for the scanned
\* list, the text of the input and the cache as they are now: whatever was
\* on screen before and whatever the time, the same three give the same
\* list.
C13_Deterministic ==
    filtered = filteredApps(Candidates, searchTerm,
                            recommendedAppList(arc, Candidates))

\* C13 witness: a launch with an empty query has just moved the launched
\* application from the second to the first place of the recommendations.
C13_Witness ==
    /\ last.op = "access"
    /\ Shard = <<>>
    /\ Len(filtered) >= 2
    /\ filtered[1].id = last.key
    /\ recommendedAppList(loadARC(stored), Candidates) = filtered

\* Two characters are the same letter, or the same character.
SameCharacter(c, d) ==
    c = d \/ (LetterIndex(c) > 0 /\ LetterIndex(c) = LetterIndex(d))

\* Two strings are equal but for the case of their letters.
SameIgnoringCase(a, b) ==
    /\ Len(a) = Len(b)
    /\ \A i \in 1..Len(a) : SameCharacter(a[i], b[i])

\* value starts with query, but for the case of the letters.
StartsIgnoringCase(value, query) ==
    /\ Len(query) <= Len(value)
    /\ SameIgnoringCase(SubSeq(value, 1, Len(query)), query)

\* The alignments of query in value: the places of value, one per character
\* of query and in ascending order, that hold the characters of query.
Alignments(query, value) ==
    {pos \in [1..Len(query) -> 1..Len(value)] :
        /\ \A i \in 1..(Len(query) - 1) : pos[i] < pos[i + 1]
        /\ \A i \in 1..Len(query) : SameCharacter(value[pos[i]], query[i])}

\* C14: a call of getMatchForField returns an exact match of baseScore 0 if
\* and only if value equals search but for case, a prefix match of
\* baseScore 1 if and only if value starts with search and is not equal to
\* it, a fuzzy match if and only if the characters of search are in value
\* in order and the pair is neither exact nor prefix, and null if and only
\* if search is no subsequence of value.
C14_Classification ==
    \A n \in 1..Len(fieldCalls) :
        LET c == fieldCalls[n]
            same == SameIgnoringCase(c.value, c.search)
            starts == StartsIgnoringCase(c.value, c.search)
            subsequence == Alignments(c.search, c.value) # {}
        IN  /\ c.match.matchType = "exact" <=> same
            /\ c.match.matchType = "exact" => c.match.baseScore = 0
            /\ c.match.matchType = "prefix" <=> (starts /\ ~same)
            /\ c.match.matchType = "prefix" => c.match.baseScore = 1
            /\ c.match.matchType = "fuzzy" <=> (subsequence /\ ~starts /\ ~same)
            /\ c.match = NoFieldMatch <=> ~subsequence

\* C14 witness: "sm" was scored against "Steam" and is a fuzzy match.
C14_Witness ==
    \E n \in 1..Len(fieldCalls) :
        /\ fieldCalls[n].search = <<"s", "m">>
        /\ fieldCalls[n].value = <<"S", "t", "e", "a", "m">>
        /\ fieldCalls[n].match.matchType = "fuzzy"

\* The sum of the gaps between the places i..Len(pos) of an alignment and
\* their predecessors.
RECURSIVE GapsFrom(_, _)
GapsFrom(pos, i) ==
    IF i > Len(pos) THEN 0
    ELSE pos[i] - pos[i - 1] - 1 + GapsFrom(pos, i + 1)

\* The penalty of an alignment: the characters of value before its first
\* place, between its places and after its last place.
AlignmentPenalty(pos, value) ==
    (pos[1] - 1) + GapsFrom(pos, 2) + (Len(value) - pos[Len(pos)])

\* C15: the baseScore of a fuzzy match is 2 plus the least penalty of all
\* alignments of search in value.
C15_MinimalPenalty ==
    \A n \in 1..Len(fieldCalls) :
        LET c == fieldCalls[n]
            penalties == {AlignmentPenalty(pos, c.value) :
                             pos \in Alignments(c.search, c.value)}
        IN  c.match.matchType = "fuzzy" =>
                c.match.baseScore = 2 + Least(penalties)

\* C15 witness: a fuzzy match was found for a search with several
\* alignments, one of them with characters of value in front of it and
\* inside it, one with characters of value behind it.
C15_Witness ==
    \E n \in 1..Len(fieldCalls) :
        LET c == fieldCalls[n]
        IN  /\ c.match.matchType = "fuzzy"
            /\ Cardinality(Alignments(c.search, c.value)) > 2
            /\ \E pos \in Alignments(c.search, c.value) :
                  pos[1] > 1 /\ GapsFrom(pos, 2) > 0
            /\ \E pos \in Alignments(c.search, c.value) :
                  pos[Len(pos)] < Len(c.value)

\* The fields of app that have a value and match search.
MatchingFields(app, search) ==
    {f \in {"name", "source", "launchPath"} :
        app[f] # <<>> /\ getMatchForField(search, app[f]) # NoFieldMatch}

\* The three scores of match m in the order they are compared in.
Scores(m) == <<m.totalScore, m.baseScore, m.fieldWeight>>

\* C16: a call of getBestMatchForApp returns null if and only if no field
\* of the application matches; else it returns the match of one of the
\* matching fields, with totalScore = baseScore + fieldWeight of that
\* field, and no matching field has smaller (totalScore, baseScore,
\* fieldWeight).
C16_BestOfFields ==
    \A n \in 1..Len(calls) :
        LET c == calls[n]
            fields == MatchingFields(c.app, c.search)
            of(f) == getMatchForField(c.search, c.app[f])
        IN  /\ c.match = NoMatch <=> fields = {}
            /\ c.match # NoMatch =>
                  /\ c.match.field \in fields
                  /\ c.match.fieldWeight = FIELD_WEIGHTS[c.match.field]
                  /\ c.match.baseScore = of(c.match.field).baseScore
                  /\ c.match.matchType = of(c.match.field).matchType
                  /\ c.match.totalScore = c.match.baseScore + c.match.fieldWeight
                  /\ \A f \in fields :
                        ~LexLess(<<of(f).baseScore + FIELD_WEIGHTS[f],
                                   of(f).baseScore, FIELD_WEIGHTS[f]>>,
                                 Scores(c.match))

\* C16 witness: the name and the source of the application have the same
\* totalScore, and the source, whose baseScore is smaller, was returned.
C16_Witness ==
    \E n \in 1..Len(calls) :
        LET c == calls[n]
        IN  /\ {"name", "source"} \subseteq MatchingFields(c.app, c.search)
            /\ getMatchForField(c.search, c.app.name).baseScore
                  = getMatchForField(c.search, c.app.source).baseScore
                        + FIELD_WEIGHTS.source
            /\ c.match.field = "source"

\* C17: of two matches found on the same field, an exact one has a smaller
\* totalScore than a prefix one, and a prefix one a smaller totalScore than
\* a fuzzy one.
C17_ExactPrefixFuzzy ==
    \A i, j \in 1..Len(calls) :
        LET a == calls[i].match
            b == calls[j].match
        IN  (a # NoMatch /\ b # NoMatch /\ a.field = b.field) =>
                /\ (a.matchType = "exact" /\ b.matchType = "prefix")
                      => a.totalScore < b.totalScore
                /\ (a.matchType = "prefix" /\ b.matchType = "fuzzy")
                      => a.totalScore < b.totalScore
                /\ (a.matchType = "exact" /\ b.matchType = "fuzzy")
                      => a.totalScore < b.totalScore

\* C17 witness: "ste" was found as a prefix of the name "Steam" and "sam" as
\* a fuzzy match of the name "Stream".
C17_Witness ==
    \E i, j \in 1..Len(calls) :
        /\ calls[i].search = <<"s", "t", "e">>
        /\ calls[i].match.matchType = "prefix" /\ calls[i].match.field = "name"
        /\ calls[j].search = <<"s", "a", "m">>
        /\ calls[j].match.matchType = "fuzzy" /\ calls[j].match.field = "name"

\* C18 as stated: for one search, a best match found on the name has a
\* smaller totalScore than a best match found on the launchPath, whatever
\* the kinds of the matches and the lengths of the fields.
C18_NameBeforePath ==
    \A i, j \in 1..Len(calls) :
        (/\ calls[i].search = calls[j].search
         /\ calls[i].match.field = "name"
         /\ calls[j].match.field = "launchPath")
            => calls[i].match.totalScore < calls[j].match.totalScore

\* C18: for one search, a best match found on the name has a smaller
\* totalScore than a best match found on the launchPath when its baseScore
\* is below the weight of the launchPath: an exact match, a prefix match,
\* and a fuzzy match that leaves fewer characters of the name unmatched
\* than that weight less 2.
C18_NameBeforePathBelowWeight ==
    \A i, j \in 1..Len(calls) :
        (/\ calls[i].search = calls[j].search
         /\ calls[i].match.field = "name"
         /\ calls[j].match.field = "launchPath"
         /\ calls[i].match.baseScore < FIELD_WEIGHTS.launchPath)
            => calls[i].match.totalScore < calls[j].match.totalScore

\* C18 witness: for one search a fuzzy match on a name and a prefix match
\* on a launchPath were found.
C18_Witness ==
    \E i, j \in 1..Len(calls) :
        /\ calls[i].search = calls[j].search
        /\ calls[i].match.field = "name" /\ calls[i].match.matchType = "fuzzy"
        /\ calls[i].match.baseScore < FIELD_WEIGHTS.launchPath
        /\ calls[j].match.field = "launchPath"
        /\ calls[j].match.matchType = "prefix"

\* The searches that are a variant of name, the start of one, or one in
\* upper case.
VariantSearches(name) ==
    LET variants == toPinyinVariants(name)
        upper(v) == [i \in 1..Len(v) |->
                        IF LetterIndex(v[i]) > 0
                        THEN UpperCaseLetters[LetterIndex(v[i])] ELSE v[i]]
    IN  UNION {{SubSeq(variants[k], 1, n) : n \in 1..Len(variants[k])}
                  \cup {upper(variants[k])} : k \in 1..Len(variants)}

\* name holds a Chinese character.
HasChinese(name) == \E i \in 1..Len(name) : IsChinese(name[i])

\* C19: a call of getBestMatchForApp for an application with a Chinese name
\* and a search that is a phonetic variant of that name, the start of one
\* or one in upper case, returns a match.
C19_VariantsMatch ==
    \A n \in 1..Len(calls) :
        (/\ HasChinese(calls[n].app.name)
         /\ calls[n].search \in VariantSearches(calls[n].app.name))
            => calls[n].match # NoMatch

\* C20: a call for an application with a Chinese name and its full reading
\* as the search returns the totalScore that a call with the same search
\* returns for an application of that very name.
C20_PinyinScoredAsDirect ==
    \A i, j \in 1..Len(calls) :
        (/\ HasChinese(calls[i].app.name)
         /\ calls[i].search = toPinyinVariants(calls[i].app.name)[1]
         /\ calls[j].search = calls[i].search
         /\ SameIgnoringCase(calls[j].app.name, calls[j].search))
            => calls[i].match.totalScore = calls[j].match.totalScore

\* C21 as stated: a call of toPinyinVariants with a non-empty text that holds
\* no Chinese character returns the lower-cased text and nothing else.
C21_NonChineseLowerCased ==
    \A n \in 1..Len(variantCalls) :
        (/\ variantCalls[n].text # <<>>
         /\ ~HasChinese(variantCalls[n].text))
            => variantCalls[n].variants = <<toLowerCase(variantCalls[n].text)>>

IsMostRecent(m, key) == m # <<>> /\ m[Len(m)][1] = key

\* C23 as stated: when access(key, value) finds key in T1, then on return
\* key is no longer in T1 and is the most recently used entry of T2.
C23_T1HitPromotes ==
    [][\A key \in Keys :
          (Access(key) /\ Classify(arc, key) = "T1")
              => (/\ ~MapHas(arc'.t1, key)
                  /\ IsMostRecent(arc'.t2, key))]_vars

\* C24 as stated: when access(key, value) finds key in T2, then on return
\* key is the most recently used entry of T2 and its accessCount is one
\* greater than before the call.
C24_T2HitRefreshes ==
    [][\A key \in Keys :
          (Access(key) /\ Classify(arc, key) = "T2")
              => (/\ IsMostRecent(arc'.t2, key)
                  /\ MapGet(arc'.t2, key).accessCount
                        = MapGet(arc.t2, key).accessCount + 1)]_vars

\* The live entries other than key and the ghosts other than key, list by
\* list, in order.
Others(a, key) ==
    [l \in ListNames |-> SelectSeq(a[l], LAMBDA e : e[1] # key)]

\* What one run of the replacement step may leave of cache a: a itself when
\* nothing was evicted, or a with the oldest entry of T1 at the end of B1,
\* or a with the oldest entry of T2 at the end of B2.
OneReplacement(a) ==
    {a}
        \cup (IF a.t1 = <<>> THEN {}
              ELSE {[a EXCEPT !.t1 = Tail(a.t1), !.b1 = Append(a.b1, a.t1[1])]})
        \cup (IF a.t2 = <<>> THEN {}
              ELSE {[a EXCEPT !.t2 = Tail(a.t2), !.b2 = Append(a.b2, a.t2[1])]})

\* C25: when access(key, value) finds key in B1, p becomes
\* min(capacity, p + min(|B2|, 1)) with |B2| taken before the call, the
\* other entries are those one replacement step called with TRUE leaves, and
\* on return key is not in B1, not in T1 and is the newest entry of T2, a
\* new entry with accessCount 1.
C25_B1GhostHit ==
    [][\A key \in Keys :
          (Access(key) /\ Classify(arc, key) = "B1")
              => LET adapted == [arc EXCEPT !.p = Min(arc.capacity,
                                                      arc.p + Min(Len(arc.b2), 1))]
                 IN  /\ arc'.p = adapted.p
                     /\ Others(arc', key) = Others(replace(adapted, TRUE), key)
                     /\ replace(adapted, TRUE) \in OneReplacement(adapted)
                     /\ ListsHolding(arc', key) = {"t2"}
                     /\ IsMostRecent(arc'.t2, key)
                     /\ MapGet(arc'.t2, key) = NewItem(key, AppOf(key), now)]_vars

\* C25 witness: a B1 ghost hit has raised p while a replacement took place:
\* p is positive, and both ghost lists hold entries after it.
C25_Witness ==
    /\ last.op = "access" /\ last.case = "B1"
    /\ arc.p >= 1
    /\ arc.b1 # <<>> /\ arc.b2 # <<>>
    /\ MapHas(arc.t2, last.key)

\* C26: when access(key, value) finds key in B2, p becomes
\* max(0, p - min(|B1|, 1)) with |B1| taken before the call, the other
\* entries are those one replacement step called with FALSE leaves, and on
\* return key is not in B2 and is the newest entry of T2, a new entry with
\* accessCount 1.
C26_B2GhostHit ==
    [][\A key \in Keys :
          (Access(key) /\ Classify(arc, key) = "B2")
              => LET adapted == [arc EXCEPT !.p = Max(0, arc.p
                                                        - Min(Len(arc.b1), 1))]
                 IN  /\ arc'.p = adapted.p
                     /\ Others(arc', key) = Others(replace(adapted, FALSE), key)
                     /\ replace(adapted, FALSE) \in OneReplacement(adapted)
                     /\ ListsHolding(arc', key) = {"t2"}
                     /\ IsMostRecent(arc'.t2, key)
                     /\ MapGet(arc'.t2, key) = NewItem(key, AppOf(key), now)]_vars

\* C26 witness: a B2 ghost hit has returned with two ghosts in B1; the
\* replacement step adds at most one, so B1 held a ghost before the call and
\* p was lowered by one or held at 0.
C26_Witness ==
    /\ last.op = "access" /\ last.case = "B2"
    /\ Len(arc.b1) >= 2
    /\ MapHas(arc.t2, last.key)

\* The replacement step as C27 states it: the oldest entry of T1 goes to B1
\* if T1 holds an entry and biasTowardT1 is true or |T1| > p; otherwise the
\* oldest entry of T2, if there is one, goes to B2.
ReplacementAsStated(a, biasTowardT1) ==
    IF Len(a.t1) >= 1 /\ (biasTowardT1 \/ Len(a.t1) > a.p)
    THEN [a EXCEPT !.t1 = Tail(a.t1), !.b1 = Append(a.b1, a.t1[1])]
    ELSE IF a.t2 = <<>> THEN a
         ELSE [a EXCEPT !.t2 = Tail(a.t2), !.b2 = Append(a.b2, a.t2[1])]

\* C27 as stated: every call of the replacement step that an access makes
\* leaves the cache that ReplacementAsStated gives for the cache and the
\* argument of the call.
C27_ReplacementStep ==
    [][\A key \in Keys :
          LET c == ReplaceCall(arc, key, AppOf(key), now)
          IN  (Access(key) /\ c.called)
                  => replace(c.arc, c.bias) = ReplacementAsStated(c.arc, c.bias)]_vars

\* The keys of the four lists of cache a.
AllKeys(a) == UNION {KeySet(a[l]) : l \in ListNames}

\* The oldest ghost of B1 and the oldest ghost of B2.
OldestGhosts(a) ==
    (IF a.b1 = <<>> THEN {} ELSE {a.b1[1][1]})
        \cup (IF a.b2 = <<>> THEN {} ELSE {a.b2[1][1]})

\* C28: the replacement step an access calls leaves the keys of the four
\* lists as they are and moves at most one live entry, as it is, to the end
\* of the ghost list of its list; an access that finds its key in a list
\* loses no key, and a miss loses at most the oldest ghost of B1 or the
\* oldest ghost of B2.
C28_ReplacementKeepsKeys ==
    [][\A key \in Keys :
          Access(key) =>
              LET c == ReplaceCall(arc, key, AppOf(key), now)
                  r == replace(c.arc, c.bias)
                  lost == AllKeys(arc) \ AllKeys(arc')
              IN  /\ c.called => /\ AllKeys(r) = AllKeys(c.arc)
                                 /\ r \in OneReplacement(c.arc)
                  /\ Classify(arc, key) # "miss" => lost = {}
                  /\ Classify(arc, key) = "miss" =>
                        /\ lost \subseteq OldestGhosts(arc)
                        /\ Cardinality(lost) <= 1]_vars

\* C28 witness: a hit has run the replacement step in a cache that knows
\* every key and holds ghosts in both ghost lists: nothing was discarded.
C28_Witness ==
    /\ last.op = "access" /\ last.case \in {"T1", "T2"}
    /\ AllKeys(arc) = Keys
    /\ arc.b1 # <<>> /\ arc.b2 # <<>>

\* C29: when access(key, value) finds key in none of the four lists, then
\* on return key is in T1 and in no other list, it is the most recently used
\* entry of T1, and its entry is a fresh one with accessCount 1 and the
\* payload value.
C29_MissInsertsIntoT1 ==
    [][\A key \in Keys :
          (Access(key) /\ Classify(arc, key) = "miss")
              => /\ ListsHolding(arc', key) = {"t1"}
                 /\ IsMostRecent(arc'.t1, key)
                 /\ MapGet(arc'.t1, key)
                       = [key |-> key, value |-> AppOf(key),
                          lastAccessed |-> now, accessCount |-> 1]]_vars

\* C29 witness: a miss has put its key behind an older entry of T1.
C29_Witness ==
    /\ last.op = "access" /\ last.case = "miss"
    /\ Len(arc.t1) >= 2
    /\ arc.t1[Len(arc.t1)][1] = last.key
    /\ arc.t1[Len(arc.t1)][2].accessCount = 1

\* Cache a with a fresh entry for key at the most recently used end of T1
\* and nothing else changed.
OnlyAppended(a, key, value, t) ==
    [a EXCEPT !.t1 = Append(a.t1, <<key, [key |-> key, value |-> value,
                                         lastAccessed |-> t,
                                         accessCount |-> 1]>>)]

\* |T1| + |B1| and the total size of cache a.
L1Size(a) == Len(a.t1) + Len(a.b1)
TotalSize(a) == Len(a.t1) + Len(a.t2) + Len(a.b1) + Len(a.b2)

\* C30 as stated: a miss at a time when |T1| + |B1| differs from the
\* capacity and the total size is below twice the capacity only appends the
\* new entry to T1.
C30_MissOnlyAppends ==
    [][\A key \in Keys :
          (/\ Access(key) /\ Classify(arc, key) = "miss"
           /\ L1Size(arc) # arc.capacity
           /\ TotalSize(arc) < 2 * arc.capacity)
              => arc' = OnlyAppended(arc, key, AppOf(key), now)]_vars

\* C30 amended: a miss at a time when |T1| + |B1| exceeds the capacity, or
\* is below it with the total size below the capacity too, only appends the
\* new entry to T1; a miss at a time when |T1| + |B1| is below the capacity
\* and the total size has reached it runs the replacement step, after the
\* oldest ghost of B2 is discarded if the total size is twice the capacity,
\* and then appends the new entry.
C30_MissOnlyAppendsBelowCapacity ==
    [][\A key \in Keys :
          (Access(key) /\ Classify(arc, key) = "miss") =>
              /\ (\/ L1Size(arc) > arc.capacity
                  \/ (L1Size(arc) < arc.capacity
                        /\ TotalSize(arc) < arc.capacity))
                    => arc' = OnlyAppended(arc, key, AppOf(key), now)
              /\ (L1Size(arc) < arc.capacity
                    /\ TotalSize(arc) >= arc.capacity)
                    => \E r \in OneReplacement(
                                   IF /\ TotalSize(arc) = 2 * arc.capacity
                                      /\ arc.b2 # <<>>
                                   THEN [arc EXCEPT !.b2 = Tail(arc.b2)]
                                   ELSE arc) :
                          arc' = OnlyAppended(r, key, AppOf(key), now)]_vars

\* C30 witness: a miss has returned with |T1| + |B1| two above the capacity
\* and entries in T2; a miss adds at most one to |T1| + |B1|, and one that
\* starts at the capacity or below it ends at most one above it, so this
\* miss started above the capacity and only appended.
C30_Witness ==
    /\ last.op = "access" /\ last.case = "miss"
    /\ L1Size(arc) >= arc.capacity + 2
    /\ arc.t2 # <<>>
    /\ IsMostRecent(arc.t1, last.key)

\* Cache a with the oldest entry of T1 moved to the end of B1.
T1OldestToB1(a) == [a EXCEPT !.t1 = Tail(a.t1), !.b1 = Append(a.b1, a.t1[1])]

\* The replacement step with biasTowardT1 false: the oldest entry of T1
\* goes to B1 if |T1| > p, otherwise the oldest entry of T2, if any, goes
\* to B2.
ReplacementByP(a) ==
    IF Len(a.t1) > a.p THEN T1OldestToB1(a)
    ELSE IF a.t2 = <<>> THEN a
         ELSE [a EXCEPT !.t2 = Tail(a.t2), !.b2 = Append(a.b2, a.t2[1])]

\* C31 as stated: on a miss at a time when |T1| + |B1| is the capacity, if
\* |T1| is below the capacity the oldest ghost of B1 is discarded, otherwise
\* the oldest entry of T1 is moved into B1, and apart from the new entry
\* nothing else changes.
C31_L1FullMiss ==
    [][\A key \in Keys :
          (/\ Access(key) /\ Classify(arc, key) = "miss"
           /\ L1Size(arc) = arc.capacity)
              => IF Len(arc.t1) < arc.capacity
                 THEN arc' = OnlyAppended([arc EXCEPT !.b1 = Tail(arc.b1)],
                                          key, AppOf(key), now)
                 ELSE arc' = OnlyAppended(T1OldestToB1(arc),
                                          key, AppOf(key), now)]_vars

\* C31 amended: on a miss at a time when |T1| + |B1| is the capacity, if
\* |T1| is below the capacity the oldest ghost of B1 is discarded and then
\* the replacement step runs with biasTowardT1 false; otherwise the oldest
\* entry of T1 is moved into B1; apart from the new entry nothing else
\* changes.
C31_L1FullMissWithReplacement ==
    [][\A key \in Keys :
          (/\ Access(key) /\ Classify(arc, key) = "miss"
           /\ L1Size(arc) = arc.capacity)
              => IF Len(arc.t1) < arc.capacity
                 THEN arc' = OnlyAppended(
                                 ReplacementByP([arc EXCEPT !.b1 = Tail(arc.b1)]),
                                 key, AppOf(key), now)
                 ELSE arc' = OnlyAppended(T1OldestToB1(arc),
                                          key, AppOf(key), now)]_vars

\* C31 witness: a miss has returned with |T1| + |B1| one above the capacity
\* and T1 full.  A miss that starts below the capacity, or at it with T1
\* not full, ends at the capacity at most, and one that starts above it
\* ends two above it at least: this miss found T1 full and moved its oldest
\* entry to B1.
C31_Witness ==
    /\ last.op = "access" /\ last.case = "miss"
    /\ L1Size(arc) = arc.capacity + 1
    /\ Len(arc.t1) = arc.capacity
    /\ arc.capacity >= 2
    /\ IsMostRecent(arc.t1, last.key)

\* C32 as stated: when access(key, value) has returned, has(key) is true.
C32_AccessedKeyIsLive ==
    last.op = "access" => has(arc, last.key)

\* C33 as stated: |T1| + |T2| <= capacity every time access() returns.
C33_LiveWithinCapacity ==
    last.op = "access" => Len(arc.t1) + Len(arc.t2) <= arc.capacity

C35_PenaltyIsLengthDifference ==
    \A n \in 1..Len(fieldCalls) :
        LET c == fieldCalls[n]
        IN  c.match.matchType = "fuzzy"
                => /\ c.match.baseScore
                        = 2 + Len(toLowerCase(c.value))
                            - Len(toLowerCase(c.search))
                   /\ c.match.baseScore >= 3

\* A fuzzy match of a query that aligns with the value in several ways, with
\* gaps before, between and after the matched characters, and a fuzzy match
\* with the least score 3.
C35_Witness ==
    \E n \in 1..Len(fieldCalls) :
        LET c == fieldCalls[n]
            A == Alignments(c.search, c.value)
        IN  /\ c.match.matchType = "fuzzy"
            /\ Len(c.search) >= 2
            /\ Cardinality(A) >= 2
            /\ \E pos \in A : pos[1] > 1
            /\ \E pos \in A : GapsFrom(pos, 2) > 0
            /\ c.match.baseScore = 2 + Len(c.value) - Len(c.search)
            /\ c.match.baseScore >= 3

\* The name holds an uninstaller keyword, whatever the case of its letters.
IsUninstallerName(name) ==
    \E k \in 1..Len(uninstallerKeywords) :
        includes(toLowerCase(name), uninstallerKeywords[k])

\* The applications of the list with the lower-cased name nameLower.
Named(list, nameLower) ==
    {n \in 1..Len(list) : toLowerCase(list[n].name) = nameLower}

\* The application the claim keeps for a name: the first of that name that
\* is no shortcut if there is one, otherwise the first of that name.
Preferred(list, nameLower, shortcuts) ==
    LET named == Named(list, nameLower)
        programs == named \ shortcuts
    IN  list[Least(IF programs # {} THEN programs ELSE named)]

\* The launchPath ends in ".lnk", letter for letter.
LnkExactly(list) ==
    {n \in 1..Len(list) : endsWith(list[n].launchPath, LnkSuffix)}

\* The launchPath ends in ".lnk" in any case of the letters.
LnkAnyCase(list) ==
    {n \in 1..Len(list) : endsWith(toLowerCase(list[n].launchPath), LnkSuffix)}

\* The de-duplicated list has no two applications of one lower-cased name
\* and no uninstaller, and holds for every other name of the input the
\* application Preferred picks among shortcuts.
DedupKeeps(shortcuts) ==
    LET kept == Candidates
    IN  /\ \A i, j \in 1..Len(kept) :
               i # j => toLowerCase(kept[i].name) # toLowerCase(kept[j].name)
        /\ \A i \in 1..Len(kept) :
               /\ ~IsUninstallerName(kept[i].name)
               /\ \E n \in 1..Len(apps) : kept[i] = apps[n]
        /\ \A n \in 1..Len(apps) :
               ~IsUninstallerName(apps[n].name)
                   => \E i \in 1..Len(kept) :
                         kept[i] = Preferred(apps, toLowerCase(apps[n].name),
                                             shortcuts)

\* C36 as stated: in the de-duplicated list no two applications have the
\* same lower-cased name and none has an uninstaller keyword in its name,
\* and the application kept for a name is the first of that name whose
\* launchPath does not end in ".lnk", or the first of that name if all do.
C36_DedupKeepsFirstNonLnk == DedupKeeps(LnkExactly(apps))

\* C36, amended: the same with a launchPath counted as a shortcut when it
\* ends in ".lnk" in any case of the letters (".LNK", ".Lnk").
C36_DedupKeepsFirstProgram == DedupKeeps(LnkAnyCase(apps))

\* A list of three applications of one name: a shortcut whose launchPath
\* ends in ".LNK" first, then two programs, of which the first is kept.
C36_Witness ==
    /\ Len(apps) = 3
    /\ Cardinality(Named(apps, toLowerCase(apps[1].name))) = 3
    /\ LnkAnyCase(apps) = {1}
    /\ LnkExactly(apps) = {}
    /\ Candidates = <<apps[2]>>

\* C37: launcher scans are single-flight: at most one scan is in flight; a
\* startScan call made while a scan is pending starts no scan and returns
\* the pending promise; once a scan has settled, by success or by failure
\* (a scan() call that throws before the first await included), the next
\* startScan call starts a new scan.
C37_SingleFlight ==
    [][/\ Cardinality(InFlight(scanner')) <= 1
       /\ \A cached \in ScanResults, threw \in BOOLEAN, call \in ScanCalls :
             cacheSettles(cached, threw, call)
                 => IF InFlight(scanner) # {}
                    THEN /\ scanner'.promises = scanner.promises
                         /\ scanner'.returned \in InFlight(scanner)
                         /\ ~scanner'.started
                    ELSE /\ scanner'.started
                         /\ Len(scanner'.promises) = Len(scanner.promises) + 1
                         /\ scanner'.returned = Len(scanner'.promises)]_vars

\* C38: in the clipboard runtime, after any interleaving of subscribe,
\* unsubscribe, 'destroyed' events, broadcasts and shutdown in which every
\* native subscribe call succeeded, the watcher is attached
\* (clipboardWatcherAttached) exactly when a subscriber is registered, and
\* every registered subscriber has a reference count of at least 1; the
\* native watcher itself is watching exactly then as long as no native
\* unsubscribe call threw.
C38_AttachedIffSubscribed ==
    ~clipboard.subscribeThrew
        => /\ clipboard.clipboardWatcherAttached
                  <=> DOMAIN clipboard.clipboardSubscribers # {}
           /\ \A id \in DOMAIN clipboard.clipboardSubscribers :
                  clipboard.clipboardSubscribers[id] >= 1
           /\ ~clipboard.unsubscribeThrew
                  => clipboard.watching = clipboard.clipboardWatcherAttached

\* After all five operations, with every native call successful: a
\* subscriber with two references is left, the other webContents is
\* destroyed, and the watcher is attached.
C38_Witness ==
    /\ ~clipboard.subscribeThrew
    /\ ~clipboard.unsubscribeThrew
    /\ clipboard.ops =
          {"subscribe", "unsubscribe", "destroyed", "broadcast", "shutdown"}
    /\ \E id \in DOMAIN clipboard.clipboardSubscribers :
          /\ clipboard.clipboardSubscribers[id] = 2
          /\ clipboard.emitted = Contents \ {id}
    /\ clipboard.clipboardWatcherAttached

\* The contents of the chunks, one after another.
RECURSIVE Concatenated(_)
Concatenated(chunks) ==
    IF chunks = <<>> THEN <<>>
    ELSE Head(chunks).content \o Concatenated(Tail(chunks))

\* The handler calls that carried the done chunk.
DoneCalls(x) == {i \in 1..Len(x.forwarded) : x.forwarded[i].done}

\* C39: the smoothing stream proxy relays one stream faithfully under every
\* interleaving of incoming chunks and timer firings: the done chunk is
\* forwarded at most once, nothing is forwarded after it or after
\* dispose(), and when the done chunk is forwarded the content forwarded
\* before it, put together, is the content received for the stream, put
\* together: nothing lost, doubled or out of order.
C39_FaithfulRelay ==
    [][/\ Cardinality(DoneCalls(proxy')) <= 1
       /\ \A i \in DoneCalls(proxy') : i = Len(proxy'.forwarded)
       /\ proxy.disposed => proxy'.forwarded = proxy.forwarded
       /\ (DoneCalls(proxy) = {} /\ DoneCalls(proxy') # {})
             => Concatenated(SubSeq(proxy'.forwarded, 1,
                                    Len(proxy'.forwarded) - 1))
                    = proxy'.received]_vars

\* The done chunk was forwarded after all the characters of a stream that
\* came in as several chunks: some were forwarded one by one by segment
\* timers, the rest as one chunk when doneTimer fired first.
C39_Witness ==
    /\ DoneCalls(proxy) # {}
    /\ Len(proxy.received) = MaxContent
    /\ proxy.received = [i \in 1..MaxContent |-> i]
    /\ proxy.segmentsDelivered >= 1
    /\ Len(proxy.forwarded) >= 3
    /\ \E i \in 1..Len(proxy.forwarded) : Len(proxy.forwarded[i].content) >= 2
    /\ proxy.options = DEFAULT_OPTIONS

\* now - timestamp is at least one minute.
AMinuteOrMore(r) == MsAtLeast(r.now, MsPlus(r.timestamp, Ms(1, 0)))

\* C40: formatRelativeTime(timestamp, now) never reports a zero count: for
\* every delta = now - timestamp of at least one minute the number in the
\* label is at least 1, and the label is "just now" only for deltas below
\* one minute, negative ones included.
C40_NeverZero ==
    relative.label # NoLabel
        => IF AMinuteOrMore(relative)
           THEN relative.label.unit # "just now" /\ relative.label.count >= 1
           ELSE relative.label.unit = "just now"

====
